---- MODULE Spec2Model ----
(***************************************************************************)
(* Model of the Spanish-conversation classroom application:                *)
(*   - the PARTS prompt builder        (simple_server.py build_parts_prompt)*)
(*   - the session store               (database.py, REST handlers)        *)
(*   - the WebSocket session controller (simple_server.py websocket_endpoint)*)
(* Texts are sequences of one-character strings, so that lower-casing,     *)
(* substring search, joining and splitting are computed, not assumed.      *)
(***************************************************************************)
EXTENDS Integers, Sequences, FiniteSets, TLC

VARIABLES
    \* ---- prompt builder (pure function under test) ----
    pb_input,            \* the (assignment_data, level) last passed to build_parts_prompt
    parts_prompt,        \* the prompt it returned
    \* ---- persistence store ----
    assignments,         \* rows of table assignments: id -> [exists, is_active]
    sessions,            \* rows of table assignment_sessions, in insertion order
    next_session,        \* number of session ids handed out so far (uuid4 freshness)
    db_result,           \* what the last store operation returned
    txn,                 \* per worker: position inside a multi-statement store call
    logs,                \* rows of table conversation_logs, in insertion order
    clock,               \* the time the store host has reached
    \* ---- WebSocket session controller (one connection) ----
    pc,                  \* position of the connection's coroutine
    url_level,           \* the {level} path parameter of /ws/{level}
    level,               \* local variable level
    config_key,          \* key of level_configs selected for this connection
    assignment_data,     \* local variable assignment_data
    assignment_prompt,   \* local variable assignment_prompt
    setup_event,         \* what happened during the 1-second setup wait
    conversation_history,\* local variable conversation_history
    sent,                \* frames sent to the client by the last step
    calls,               \* provider invocations made by the last step
    completion,          \* value returned by get_ai_response in the last step
    received,            \* kind of the client frame handled by the last step
    failed,              \* speech calls of the last step that raised
    turns,               \* number of client messages handled in the loop
    incidents,           \* number of steps in which a provider failed or was filtered
    env,                 \* process configuration (API keys present)
    conns,               \* per open connection: the locals of its endpoint call
    classrooms,          \* rows of table classrooms, by id
    students,            \* ids of the rows of table students
    enrollments,         \* rows of table enrollments, in insertion order
    http,                \* the last REST request and the status of its response
    schema,              \* per table of the database file: whether it exists, its columns
    init_result,         \* how the last init_database call ended
    teachers,            \* rows of table teachers, by id
    student_hashes       \* column password_hash of table students, by student id

vars == << pb_input, parts_prompt,
           assignments, sessions, next_session, db_result, txn,
           logs, clock,
           pc, url_level, level, config_key, assignment_data, assignment_prompt,
           setup_event, conversation_history, sent, calls, completion, received,
           failed, turns, incidents, env,
           conns,
           classrooms, students, enrollments, http,
           schema, init_result,
           teachers, student_hashes >>

pbVars == << pb_input, parts_prompt >>
logVars == << logs, clock >>
dbVars == << assignments, sessions, next_session, db_result, txn, logVars >>
wsVars == << pc, url_level, level, config_key, assignment_data, assignment_prompt,
             setup_event, conversation_history, sent, calls, completion, received,
             failed, turns, incidents, env >>
mcVars == << conns >>
enVars == << classrooms, students, enrollments, http >>
scVars == << schema, init_result >>
acVars == << teachers, student_hashes >>

(***************************************************************************)
(* Python values                                                           *)
(***************************************************************************)
\* Python's None where a dict (a JSON object) is expected; JSON values that
\* are not objects carry a "py" tag, JSON objects are records of their keys
None == [ py |-> "None" ]

\* Python's None where a text is expected
NoText == << "None" >>

IsDict(d) == "py" \notin DOMAIN d

\* truth value of a dict-or-None-or-string payload (a non-empty string and a
\* non-empty dict are truthy)
Truthy(d) == d # None /\ DOMAIN d # { }

\* dict.get(key, default)
Get(d, key, default) == IF key \in DOMAIN d THEN d[key] ELSE default

RECURSIVE Flatten(_)
\* concatenation of a sequence of texts
Flatten(ss) == IF ss = << >> THEN << >> ELSE Head(ss) \o Flatten(Tail(ss))

(***************************************************************************)
(* Texts                                                                   *)
(***************************************************************************)
LowerTable ==
    [ c \in {"A","B","C","E","H","I","L","N","O","R","S","V","Z"} |->
        CASE c = "A" -> "a" [] c = "B" -> "b" [] c = "C" -> "c" [] c = "E" -> "e"
          [] c = "H" -> "h" [] c = "I" -> "i" [] c = "L" -> "l" [] c = "N" -> "n"
          [] c = "O" -> "o" [] c = "R" -> "r" [] c = "S" -> "s" [] c = "V" -> "v"
          [] c = "Z" -> "z" ] @@ [ c \in {"Ó"} |-> "ó" ]

\* str.lower()
Lower(text) ==
    [ i \in 1..Len(text) |->
        IF text[i] \in DOMAIN LowerTable THEN LowerTable[text[i]] ELSE text[i] ]

\* word in text   (Python substring test)
Contains(text, word) ==
    \E i \in 0..(Len(text) - Len(word)) :
        \A j \in 1..Len(word) : text[i + j] = word[j]

\* text.startswith(prefix)
StartsWith(text, prefix) ==
    /\ Len(prefix) <= Len(text)
    /\ \A j \in 1..Len(prefix) : text[j] = prefix[j]

RECURSIVE JoinNoSpace(_, _)
JoinNoSpace(sep, words) ==
    IF words = << >> THEN << >>
    ELSE IF Len(words) = 1 THEN words[1]
    ELSE words[1] \o << "," >> \o JoinNoSpace(sep, Tail(words))

RECURSIVE Join(_, _)
\* sep.join(words)
Join(sep, words) ==
    IF words = << >> THEN << >>
    ELSE IF Len(words) = 1 THEN words[1]
    ELSE words[1] \o sep \o Join(sep, Tail(words))

RECURSIVE SplitFrom(_, _, _)
\* text.split(sep), scanning from the left; cur is the piece being read
SplitFrom(text, sep, cur) ==
    IF text = << >> THEN << cur >>
    ELSE IF StartsWith(text, sep)
         THEN << cur >> \o SplitFrom(SubSeq(text, Len(sep) + 1, Len(text)), sep, << >>)
         ELSE SplitFrom(Tail(text), sep, Append(cur, Head(text)))

Split(text, sep) == SplitFrom(text, sep, << >>)

\* list.count(x)
Count(x, list) == Cardinality({ i \in 1..Len(list) : list[i] = x })

CommaSpace == << ",", " " >>

(***************************************************************************)
(* Prompt builder: build_parts_prompt                                      *)
(***************************************************************************)
\* a JSON list value and a JSON number value of an assignment field
List(items) == [ kind |-> "list", items |-> items ]
Number(n) == [ kind |-> "number", n |-> n ]

\* Python truthiness of a field value: empty list and 0 are falsy
FieldTruthy(v) == IF v.kind = "list" THEN v.items # << >> ELSE v.n # 0

\* ', '.join(v) raises TypeError unless v is a list of strings
JoinRaises(v) == v.kind # "list"

KeyVocabularyMarker == ". Key vocabulary: "

\* theme_section, lines 1234-1236
ThemeSection(a_data) ==
    LET theme      == Get(a_data, "theme",
                          Get(a_data, "title", << "Spanish conversation" >>))
        vocab_list == Get(a_data, "vocab", List(<< >>))
    IN  << "T: Theme - " >> \o theme \o
        ( IF FieldTruthy(vocab_list)
          THEN << KeyVocabularyMarker >> \o Join(CommaSpace, vocab_list.items)
          ELSE << >> )

\* build_parts_prompt raises: a_data is not a dict (no .get), or a
\* truthy avatar_characteristics / vocab cannot be joined
PartsPromptRaises(a_data) ==
    \/ ~ IsDict(a_data)
    \/ LET characteristics == Get(a_data, "avatar_characteristics", List(<< >>))
           vocab_list      == Get(a_data, "vocab", List(<< >>))
       IN  \/ FieldTruthy(characteristics) /\ JoinRaises(characteristics)
           \/ FieldTruthy(vocab_list) /\ JoinRaises(vocab_list)

\* the text build_parts_prompt returns when it does not raise; template
\* literals are single pieces, field values are spliced in character by character
BuildPartsPrompt(a_data, lvl) ==
    LET persona           == Get(a_data, "avatar_role",
                                 << "friendly conversation partner" >>)
        characteristics   == Get(a_data, "avatar_characteristics", List(<< >>))
        student_objective == Get(a_data, "student_objective",
                                 << "practice Spanish conversation" >>)
        recipient_level   == Get(a_data, "level", lvl)
        instructions      == Get(a_data, "instructions", << >>)
        persona_traits    == IF FieldTruthy(characteristics)
                             THEN << " who is " >> \o Join(CommaSpace, characteristics.items)
                             ELSE << >>
        persona_section   == << "P: Persona - You are a " >> \o persona \o persona_traits
        act_section       == << "A: Act - Guide the student to " >> \o student_objective
                                \o << ". " >> \o instructions
        recipient_section == << "R: Recipient - ", recipient_level,
                                " level Spanish student" >>
        theme_section     == ThemeSection(a_data)
        structure_section == << "S: Structure - Natural conversation flow with appropriate vocabulary and grammar for ",
                                recipient_level, " level" >>
    IN  << "You are a Spanish language tutor using the PARTS framework.", "\n\n" >>
        \o persona_section   \o << "\n" >>
        \o act_section       \o << "\n" >>
        \o recipient_section \o << "\n" >>
        \o theme_section     \o << "\n" >>
        \o structure_section \o << "\n\n" >>
        \o << "CONVERSATION GUIDELINES: ... appropriate for ", recipient_level, " level ...",
              "\n\n", "Current conversation:", "\n", "{conversation_history}", "\n\n",
              "Respond naturally in Spanish as the " >> \o persona
        \o << ". Keep it conversational and engaging.", "\n\n", "Response:" >>

\* index of the first piece of text equal to piece, 0 when there is none
IndexOf(text, piece) ==
    IF \E i \in 1..Len(text) : text[i] = piece
    THEN CHOOSE i \in 1..Len(text) :
            /\ text[i] = piece
            /\ \A j \in 1..(i - 1) : text[j] # piece
    ELSE 0

\* the key-vocabulary clause of a prompt: what follows the marker on its line
KeyVocabularyClause(prompt) ==
    LET m    == IndexOf(prompt, KeyVocabularyMarker)
        rest == SubSeq(prompt, m + 1, Len(prompt))
        e    == IndexOf(rest, "\n")
    IN  IF m = 0 THEN << >> ELSE SubSeq(rest, 1, e - 1)

(***************************************************************************)
(* Persistence store: tables assignments and assignment_sessions           *)
(***************************************************************************)
AssignmentIds == { "a1", "a2" }
StudentIds == { "s1", "s2" }
Workers == { "w1", "w2" }

\* bound on the number of sessions ever created
MaxSessions == 2

\* ids of the sessions that can exist, and one id that never does
SessionIds == 1..MaxSessions
UnknownSessionId == 0

Idle == [ step |-> "idle" ]

\* the rows selected by WHERE assignment_id = ? AND student_id = ?
PairRows(sess, a, s) ==
    { i \in 1..Len(sess) : sess[i].assignment_id = a /\ sess[i].student_id = s }

RowsWithId(sess, id) == { i \in 1..Len(sess) : sess[i].id = id }

\* SELECT COUNT(*) ... WHERE assignment_id = ? AND student_id = ?  (no is_active filter)
AllCount(sess, a, s) == Cardinality(PairRows(sess, a, s))

\* SELECT COUNT(*) ... WHERE assignment_id = ? AND student_id = ? AND is_active = TRUE
ActiveCount(sess, a, s) ==
    Cardinality({ i \in PairRows(sess, a, s) : sess[i].is_active })

\* the rows get_submitted_session selects from:
\* WHERE assignment_id = ? AND student_id = ? AND submitted_for_grading = TRUE
SubmittedRows(sess, a, s) ==
    { i \in PairRows(sess, a, s) : sess[i].submitted_for_grading }

\* INSERT INTO assignment_sessions (...): is_active and submitted_for_grading
\* take their column defaults TRUE and FALSE
InsertSession(sess, id, a, s, completed, attempt_number) ==
    Append(sess, [ id                    |-> id,
                   assignment_id         |-> a,
                   student_id            |-> s,
                   completed             |-> completed,
                   is_active             |-> TRUE,
                   submitted_for_grading |-> FALSE,
                   attempt_number        |-> attempt_number ])

KeepOthers(sess, a, s, id) == sess

\* UPDATE ... SET submitted_for_grading = FALSE
\*  WHERE assignment_id = ? AND student_id = ? AND id != ?
UnsubmitOthers(sess, a, s, id) ==
    [ i \in 1..Len(sess) |->
        IF sess[i].assignment_id = a /\ sess[i].student_id = s /\ sess[i].id # id
        THEN [ sess[i] EXCEPT !.submitted_for_grading = FALSE ]
        ELSE sess[i] ]

\* UPDATE ... SET submitted_for_grading = TRUE WHERE id = ?
SubmitThis(sess, id) ==
    [ i \in 1..Len(sess) |->
        IF sess[i].id = id
        THEN [ sess[i] EXCEPT !.submitted_for_grading = TRUE ]
        ELSE sess[i] ]

\* (the UPDATE without its WHERE clause)
SoftDeleteEverySession(sess, a) ==
    [ i \in 1..Len(sess) |-> [ sess[i] EXCEPT !.is_active = FALSE ] ]

\* UPDATE assignment_sessions SET is_active = 0 WHERE assignment_id = ?
SoftDeleteSessions(sess, a) ==
    [ i \in 1..Len(sess) |->
        IF sess[i].assignment_id = a
        THEN [ sess[i] EXCEPT !.is_active = FALSE ]
        ELSE sess[i] ]

\* assignments the clean-up script selects: inactive, or without a classroom
\* (orphans: table classrooms is not part of this model, so which rows are
\* orphans is an input)
ToDelete(asg, orphans) ==
    { a \in AssignmentIds : asg[a].row /\ (~ asg[a].is_active \/ a \in orphans) }

RECURSIVE Without(_, _)
\* DELETE FROM assignment_sessions WHERE assignment_id = ?  for every a in del
Without(sess, del) ==
    IF sess = << >> THEN << >>
    ELSE IF Head(sess).assignment_id \in del
         THEN Without(Tail(sess), del)
         ELSE << Head(sess) >> \o Without(Tail(sess), del)

NoRow == [ row |-> FALSE, is_active |-> FALSE ]

DbInit ==
    /\ assignments = [ a \in AssignmentIds |-> NoRow ]
    /\ sessions = << >>
    /\ next_session = 0
    /\ db_result = [ op |-> "other" ]
    /\ txn = [ w \in Workers |-> Idle ]
    /\ logs = << >>
    /\ clock = 0

\* POST /api/assignments with a classroom_id: db.create_assignment
CreateAssignment(a) ==
    /\ ~ assignments[a].row
    /\ \A i \in 1..Len(sessions) : sessions[i].assignment_id # a
    /\ assignments' = [ assignments EXCEPT ![a] = [ row |-> TRUE, is_active |-> TRUE ] ]
    /\ db_result' = [ op |-> "other" ]
    /\ UNCHANGED << sessions, next_session, txn >>
    /\ UNCHANGED << pbVars, wsVars, logVars, mcVars, enVars, scVars, acVars >>

\* DELETE /api/assignments/{assignment_id}: one transaction, two UPDATEs
DeleteAssignment(a) ==
    /\ assignments' = [ assignments EXCEPT ![a].is_active = FALSE ]
    /\ sessions' = SoftDeleteSessions(sessions, a)
    /\ db_result' = [ op |-> "delete", assignment_id |-> a ]
    /\ UNCHANGED << next_session, txn >>
    /\ UNCHANGED << pbVars, wsVars, logVars, mcVars, enVars, scVars, acVars >>

\* db.create_assignment_session, run without interleaving
\* (POST /api/logs and POST /api/save-session)
CreateAssignmentSession(a, s, completed) ==
    /\ next_session < MaxSessions
    /\ LET attempt_count  == ActiveCount(sessions, a, s)
           attempt_number == attempt_count + 1
           session_id     == next_session + 1
       IN  /\ sessions' = InsertSession(sessions, session_id, a, s, completed,
                                        attempt_number)
           /\ next_session' = session_id
           /\ db_result' = [ op |-> "other" ]
    /\ UNCHANGED << assignments, txn >>
    /\ UNCHANGED << pbVars, wsVars, logVars, mcVars, enVars, scVars, acVars >>

\* db.update_session(session_id, completed = c)
UpdateSession(id, c) ==
    /\ sessions' = [ i \in 1..Len(sessions) |->
                       IF sessions[i].id = id
                       THEN [ sessions[i] EXCEPT !.completed = c ]
                       ELSE sessions[i] ]
    /\ db_result' = [ op |-> "other" ]
    /\ UNCHANGED << assignments, next_session, txn >>
    /\ UNCHANGED << pbVars, wsVars, logVars, mcVars, enVars, scVars, acVars >>

\* db.submit_session_for_grading, run without interleaving
\* (POST /api/sessions/{session_id}/submit)
SubmitSessionForGrading(id) ==
    /\ IF RowsWithId(sessions, id) = { }
       THEN /\ db_result' = [ op |-> "submit", session_id |-> id, ok |-> FALSE ]
            /\ UNCHANGED sessions
       ELSE LET session == sessions[CHOOSE i \in RowsWithId(sessions, id) : TRUE]
            IN  /\ sessions' = SubmitThis(
                                  UnsubmitOthers(sessions, session.assignment_id,
                                                 session.student_id, id), id)
                /\ db_result' = [ op |-> "submit", session_id |-> id, ok |-> TRUE ]
    /\ UNCHANGED << assignments, next_session, txn >>
    /\ UNCHANGED << pbVars, wsVars, logVars, mcVars, enVars, scVars, acVars >>

\* cleanup_assignments.py, answered "yes": hard delete in one transaction
CleanupInactiveAssignments(orphans) ==
    /\ ToDelete(assignments, orphans) # { }
    /\ sessions' = Without(sessions, ToDelete(assignments, orphans))
    /\ assignments' = [ a \in AssignmentIds |->
                          IF a \in ToDelete(assignments, orphans) THEN NoRow
                          ELSE assignments[a] ]
    /\ db_result' = [ op |-> "other" ]
    /\ UNCHANGED << next_session, txn >>
    /\ UNCHANGED << pbVars, wsVars, logVars, mcVars, enVars, scVars, acVars >>

(***************************************************************************)
(* Conversation logs: table conversation_logs                              *)
(***************************************************************************)
\* bound on the length of the "conversation" list of one request
MaxMessages == 2

\* the requests tried: a single message, and the longest conversation
ConversationLengths == { 1, MaxMessages }

\* the "conversation" list of a request: its k-th message has content k
Conversation(n) == [ k \in 1..n |-> k ]

\* db.log_conversation_message for each message in turn: created_at is
\* datetime.now().isoformat(), read anew for every row
LoggedOneByOne(session_id, conversation, now) ==
    [ k \in 1..Len(conversation) |->
        [ session_id |-> session_id, content |-> conversation[k],
          created_at |-> now + k ] ]

\* the INSERTs of save_session name no created_at: the column default
\* CURRENT_TIMESTAMP, which has a resolution of one second, stamps the rows
LoggedAsBatch(session_id, conversation, now) ==
    [ k \in 1..Len(conversation) |->
        [ session_id |-> session_id, content |-> conversation[k],
          created_at |-> now ] ]

\* SELECT * FROM conversation_logs WHERE session_id = ?
SessionLogs(rows, session_id) ==
    { i \in 1..Len(rows) : rows[i].session_id = session_id }

\* ... ORDER BY created_at ASC: the orders the statement allows; rows with
\* equal created_at may come in any order
OrderedByCreatedAt(rows, session_id) ==
    LET found == SessionLogs(rows, session_id)
        n     == Cardinality(found)
    IN  { order \in [ 1..n -> found ] :
            /\ \A i, j \in 1..n : i # j => order[i] # order[j]
            /\ \A i \in 1..(n - 1) :
                  rows[order[i]].created_at <= rows[order[i + 1]].created_at }

\* POST /api/logs: create the session, then log the messages one by one
SubmitLog(a, s, n) ==
    /\ next_session < MaxSessions
    /\ LET session_id == next_session + 1
       IN  /\ sessions' = InsertSession(sessions, session_id, a, s, FALSE,
                                        ActiveCount(sessions, a, s) + 1)
           /\ next_session' = session_id
           /\ logs' = logs \o LoggedOneByOne(session_id, Conversation(n), clock)
    /\ clock' = clock + n + 1
    /\ db_result' = [ op |-> "other" ]
    /\ UNCHANGED << assignments, txn >>
    /\ UNCHANGED << pbVars, wsVars, mcVars, enVars, scVars, acVars >>

\* POST /api/save-session: create the session, then insert the messages in
\* one transaction
SaveSession(a, s, n) ==
    /\ next_session < MaxSessions
    /\ LET session_id == next_session + 1
       IN  /\ sessions' = InsertSession(sessions, session_id, a, s, FALSE,
                                        ActiveCount(sessions, a, s) + 1)
           /\ next_session' = session_id
           /\ logs' = logs \o LoggedAsBatch(session_id, Conversation(n), clock)
    /\ clock' = clock + 1
    /\ db_result' = [ op |-> "other" ]
    /\ UNCHANGED << assignments, txn >>
    /\ UNCHANGED << pbVars, wsVars, mcVars, enVars, scVars, acVars >>

\* db.get_conversation_logs_by_session(id)
GetConversationLogsBySession(id, order) ==
    /\ order \in OrderedByCreatedAt(logs, id)
    /\ db_result' = [ op |-> "logs", session_id |-> id,
                      contents |-> [ i \in DOMAIN order |-> logs[order[i]].content ] ]
    /\ UNCHANGED << assignments, sessions, next_session, txn, logs, clock >>
    /\ UNCHANGED << pbVars, wsVars, mcVars, enVars, scVars, acVars >>

(***************************************************************************)
(* The same store calls made from several worker processes: each statement *)
(* outside a transaction is a step of its own.  sqlite3 opens the          *)
(* transaction at the first UPDATE / INSERT, so the leading SELECT of      *)
(* submit_session_for_grading and of create_assignment_session reads       *)
(* before the write lock is taken.                                         *)
(***************************************************************************)
\* submit_session_for_grading: SELECT assignment_id, student_id ... WHERE id = ?
SubmitSelect(w, id) ==
    /\ txn[w] = Idle
    /\ IF RowsWithId(sessions, id) = { }
       THEN /\ db_result' = [ op |-> "submit", session_id |-> id, ok |-> FALSE ]
            /\ UNCHANGED txn
       ELSE LET session == sessions[CHOOSE i \in RowsWithId(sessions, id) : TRUE]
            IN  /\ txn' = [ txn EXCEPT ![w] =
                              [ step          |-> "submit_selected",
                                session_id    |-> id,
                                assignment_id |-> session.assignment_id,
                                student_id    |-> session.student_id ] ]
                /\ UNCHANGED db_result
    /\ UNCHANGED << assignments, sessions, next_session >>
    /\ UNCHANGED << pbVars, wsVars, logVars, mcVars, enVars, scVars, acVars >>

\* submit_session_for_grading: the two UPDATEs and the commit
SubmitCommit(w) ==
    /\ txn[w].step = "submit_selected"
    /\ sessions' = SubmitThis(
                      UnsubmitOthers(sessions, txn[w].assignment_id,
                                     txn[w].student_id, txn[w].session_id),
                      txn[w].session_id)
    /\ db_result' = [ op |-> "submit", session_id |-> txn[w].session_id, ok |-> TRUE ]
    /\ txn' = [ txn EXCEPT ![w] = Idle ]
    /\ UNCHANGED << assignments, next_session >>
    /\ UNCHANGED << pbVars, wsVars, logVars, mcVars, enVars, scVars, acVars >>

\* create_assignment_session: SELECT COUNT(*) ...
CreateCount(w, a, s, completed) ==
    /\ txn[w] = Idle
    /\ next_session + Cardinality({ v \in Workers : txn[v].step = "create_counted" })
          < MaxSessions
    /\ txn' = [ txn EXCEPT ![w] =
                  [ step           |-> "create_counted",
                    assignment_id  |-> a,
                    student_id     |-> s,
                    completed      |-> completed,
                    attempt_number |-> ActiveCount(sessions, a, s) + 1 ] ]
    /\ UNCHANGED << assignments, sessions, next_session, db_result >>
    /\ UNCHANGED << pbVars, wsVars, logVars, mcVars, enVars, scVars, acVars >>

\* create_assignment_session: INSERT ... and the commit
CreateInsert(w) ==
    /\ txn[w].step = "create_counted"
    /\ sessions' = InsertSession(sessions, next_session + 1, txn[w].assignment_id,
                                 txn[w].student_id, txn[w].completed,
                                 txn[w].attempt_number)
    /\ next_session' = next_session + 1
    /\ db_result' = [ op |-> "other" ]
    /\ txn' = [ txn EXCEPT ![w] = Idle ]
    /\ UNCHANGED assignments
    /\ UNCHANGED << pbVars, wsVars, logVars, mcVars, enVars, scVars, acVars >>

(***************************************************************************)
(* WebSocket session controller: websocket_endpoint, get_ai_response       *)
(***************************************************************************)
\* bound on the client messages handled in the conversation loop of a
\* connection whose set-up timed out or received the well-formed assignment
\* and a plain opening line
MaxTurns == 11

\* the same bound for connections set up in any other way
ShortTurns == 2

\* bound on the steps of one connection in which something other than a
\* plain, unfiltered reply happens (provider failure, filtered completion,
\* malformed message, voice error)
MaxIncidents == 1

\* len(conversation_history) > 21
HistoryWindow == 21

\* conversation_history[-20:]
HistoryTail == 20

Hola == << "h", "o", "l", "a" >>
Bien == << "b", "i", "e", "n" >>
Gato == << "g", "a", "t", "o" >>
Perro == << "p", "e", "r", "r", "o" >>
SiNo == << "s", "i", ",", " ", "n", "o" >>
VinoMixed == << "V", "i", "N", "o" >>
VinOSpaced == << "v", "i", "n", " ", "o" >>
Alcoholicas == << "A", "L", "C", "O", "H", "Ó", "L", "I", "C", "A", "S" >>

\* prohibited_words, lines 1620 and 1661
ProhibitedWords ==
    { << "v", "i", "n", "o" >>,
      << "c", "e", "r", "v", "e", "z", "a" >>,
      << "c", "e", "r", "v", "e", "z", "a", "s" >>,
      << "a", "l", "c", "o", "h", "o", "l" >>,
      << "a", "l", "c", "o", "h", "ó", "l", "i", "c", "a", "s" >>,
      << "a", "l", "c", "o", "h", "o", "l", "i", "c", "a", "s" >>,
      << "b", "e", "b", "i", "d", "a", "s", " ",
         "a", "l", "c", "o", "h", "o", "l", "i", "c", "a", "s" >>,
      << "b", "e", "b", "i", "d", "a", "s", " ",
         "a", "l", "c", "o", "h", "ó", "l", "i", "c", "a", "s" >> }

\* "Lo siento, solo puedo sugerir bebidas sin alcohol como agua, ..." (shortened
\* to the words that matter: the sentence itself contains "alcohol")
Redirect == << "s", "i", "n", " ", "a", "l", "c", "o", "h", "o", "l" >>

\* "Lo siento, estoy teniendo problemas técnicos. ¿Puedes repetir eso?" (shortened)
Apology == << "l", "o", " ", "s", "i", "e", "n", "t", "o" >>

\* texts a completion provider can return
ResponseTexts == { Bien, VinoMixed, VinOSpaced, Alcoholicas }

\* what a provider call does: return a text or raise
ProviderOutcomes ==
    { [ ok |-> TRUE, text |-> t ] : t \in ResponseTexts }
        \cup { [ ok |-> FALSE, text |-> NoText ] }

Raises == [ ok |-> FALSE, text |-> NoText ]

\* outcomes to consider for a call: all of them if the call can be made
OutcomesIf(made) == IF made THEN ProviderOutcomes ELSE { Raises }

\* what a client sends as "content", and what Whisper returns as transcription.text
ClientTexts == { Hola }

\* keys of level_configs (three of the fourteen) and the fallback key
LevelConfigKeys == { "beginner", "intermediate_mid", "advanced" }
DefaultConfigKey == "intermediate_mid"

\* the {level} path parameter: a key of the table, and one that is not
UrlLevels == { "beginner", "intermediate" }

\* config = level_configs[level] if level in level_configs else level_configs["intermediate_mid"]
ConfigKey(lvl) == IF lvl \in LevelConfigKeys THEN lvl ELSE DefaultConfigKey

\* config["system_prompt"]
LevelSystemPrompt(key) == << "system_prompt of ", key >>

\* config["icebreakers"] (two of each list)
Icebreakers(key) == { << "icebreaker 1 of ", key >>, << "icebreaker 2 of ", key >> }

FilterCaseSensitive(bot_response) ==
    IF \E word \in ProhibitedWords : Contains(bot_response, word)
    THEN Redirect
    ELSE bot_response

\* the content filter, lines 1619-1627 and 1660-1668
ContentFilter(bot_response) ==
    LET response_lower == Lower(bot_response)
    IN  IF \E word \in ProhibitedWords : Contains(response_lower, word)
        THEN Redirect
        ELSE bot_response

TruncateLate(history) ==
    IF Len(history) > HistoryWindow + 2
    THEN << history[1] >> \o SubSeq(history, Len(history) - HistoryTail + 1, Len(history))
    ELSE history

\* if len(conversation_history) > 21:
\*     conversation_history = [conversation_history[0]] + conversation_history[-20:]
Truncate(history) ==
    IF Len(history) > HistoryWindow
    THEN << history[1] >> \o SubSeq(history, Len(history) - HistoryTail + 1, Len(history))
    ELSE history

Entry(role, content) == [ role |-> role, content |-> content ]

RECURSIVE Strip(_)
\* str.strip() for blanks
Strip(text) ==
    IF text = << >> THEN text
    ELSE IF Head(text) = " " THEN Strip(Tail(text))
    ELSE IF text[Len(text)] = " " THEN Strip(SubSeq(text, 1, Len(text) - 1))
    ELSE text

\* one invocation of a hosted model: what it was given and whether it raised
ProviderCall(provider, messages, lvl, a_data, outcome) ==
    [ provider |-> provider, messages |-> messages, level |-> lvl,
      assignment_data |-> a_data, raised |-> ~ outcome.ok ]

\* (a get_ai_response that does not fall back when LearnLM raises)
GetAiResponseNoFallback(history, lvl, a_data, learnlm, lo, oo) ==
    LET prompt_raises == Truthy(a_data) /\ PartsPromptRaises(a_data)
        learn_called  == learnlm /\ ~ prompt_raises
        learn_call    == IF learn_called
                         THEN << ProviderCall("learnlm", history, lvl, a_data, lo) >>
                         ELSE << >>
        openai_call   == << ProviderCall("openai", history, lvl, a_data, oo) >>
    IN  IF learn_called
        THEN [ text |-> IF lo.ok THEN lo.text ELSE Apology, calls |-> learn_call ]
        ELSE [ text  |-> IF oo.ok THEN oo.text ELSE Apology, calls |-> openai_call ]

\* get_ai_response(conversation_history, level, assignment_data); lo and oo are
\* what the LearnLM call and the OpenAI call do if they are made
GetAiResponse(history, lvl, a_data, learnlm, lo, oo) ==
    LET prompt_raises == Truthy(a_data) /\ PartsPromptRaises(a_data)
        learn_called  == learnlm /\ ~ prompt_raises
        learn_call    == IF learn_called
                         THEN << ProviderCall("learnlm", history, lvl, a_data, lo) >>
                         ELSE << >>
        openai_call   == << ProviderCall("openai", history, lvl, a_data, oo) >>
    IN  IF learn_called /\ lo.ok
        THEN [ text |-> lo.text, calls |-> learn_call ]
        ELSE [ text  |-> IF oo.ok THEN oo.text ELSE Apology,
               calls |-> learn_call \o openai_call ]

\* generate_speech raises only from the OpenAI TTS call, which is made when
\* ElevenLabs is not configured or did not answer 200
SpeechOutcomes ==
    { [ eleven |-> "ok", openai |-> "unused" ],
      [ eleven |-> "fail", openai |-> "ok" ],
      [ eleven |-> "fail", openai |-> "raise" ] }

GenerateSpeechRaises(elevenlabs, tts) ==
    /\ ~ elevenlabs \/ tts.eleven = "fail"
    /\ tts.openai = "raise"

\* frames of the WebSocket
BotFrame(text) == [ type |-> "bot", text |-> text, transcription |-> NoText ]
VoiceFrame(text, transcription) ==
    [ type |-> "voice_response", text |-> text, transcription |-> transcription ]
\* (the voice error reported as a bot text)
ErrorAsBotFrame == [ type |-> "bot", text |-> << "Error procesando voz" >>,
                     transcription |-> NoText ]

ErrorFrame == [ type |-> "error", text |-> << "Error procesando voz" >>,
                transcription |-> NoText ]
LoopErrorFrame == [ type |-> "bot", text |-> << "Lo siento, ha ocurrido un error" >>,
                    transcription |-> NoText ]
NoKeyFrame == [ type |-> "raw", text |-> << "Error: OPENAI_API_KEY not set" >>,
                transcription |-> NoText ]

(***************************************************************************)
(* Connection set-up, lines 1266-1583                                      *)
(***************************************************************************)
GoodAssignment == [ title |-> << "Mercado" >>, level |-> "advanced",
                    vocab |-> List(<< Gato, Perro >>) ]
NoLevelAssignment == [ title |-> << "Mercado" >> ]
BadAssignment == [ level |-> "advanced", vocab |-> Number(7) ]
StringPayload == [ py |-> "str" ]

\* first frame a client can send during the set-up wait
SetupMessages ==
    { [ json |-> "invalid" ], [ json |-> "nonobject" ],
      [ json |-> "object", type |-> "text" ],
      [ json |-> "object", type |-> "assignment_setup" ] }
    \cup { [ json |-> "object", type |-> "assignment_setup", assignment |-> a ] :
             a \in { GoodAssignment, NoLevelAssignment, BadAssignment, StringPayload } }

Practice(lvl, a_data) ==
    [ level |-> lvl, assignment_data |-> a_data, assignment_prompt |-> NoText,
      contextual |-> FALSE ]

\* the locals level, assignment_data, assignment_prompt after the try block of
\* lines 1456-1556 received msg, and whether a contextual icebreaker is generated
SetupLocals(msg, lvl) ==
    IF msg.json # "object" \/ msg.type # "assignment_setup"
    THEN Practice(lvl, None)
    ELSE LET a_data == Get(msg, "assignment", None)
         IN  IF ~ IsDict(a_data)
             THEN Practice(lvl, a_data)
             ELSE LET assignment_level == Get(a_data, "level", lvl)
                  IN  IF PartsPromptRaises(a_data)
                      THEN Practice(assignment_level, a_data)
                      ELSE [ level             |-> assignment_level,
                             assignment_data   |-> a_data,
                             assignment_prompt |-> BuildPartsPrompt(a_data, assignment_level),
                             contextual        |-> TRUE ]

IcebreakerMessages ==
    << Entry("system", << "icebreaker_prompt" >>),
       Entry("user", << "Generate the opening line:" >>) >>

\* lines 1475-1539: Gemini if configured, else OpenAI; on any exception OpenAI
\* (again); if that fails too, a second random.choice
ContextualIcebreaker(learnlm, lvl, a_data, lo, oo, oo2, fallback) ==
    LET first  == IF learnlm THEN lo ELSE oo
        call1  == ProviderCall(IF learnlm THEN "learnlm" ELSE "openai",
                               IcebreakerMessages, lvl, a_data, first)
        second == IF learnlm THEN oo ELSE oo2
        call2  == ProviderCall("openai", IcebreakerMessages, lvl, a_data, second)
    IN  IF first.ok
        THEN [ text |-> Strip(first.text), calls |-> << call1 >> ]
        ELSE IF second.ok
             THEN [ text |-> Strip(second.text), calls |-> << call1, call2 >> ]
             ELSE [ text |-> fallback, calls |-> << call1, call2 >> ]

SystemPromptDefaultLevel(a_prompt, key) ==
    IF a_prompt # NoText THEN a_prompt ELSE LevelSystemPrompt(DefaultConfigKey)

\* system_prompt = assignment_prompt if assignment_prompt else config["system_prompt"]
SystemPrompt(a_prompt, key) ==
    IF a_prompt # NoText THEN a_prompt ELSE LevelSystemPrompt(key)

WsInit ==
    /\ pc = "connecting"
    /\ url_level = "none"
    /\ level = "none"
    /\ config_key = "none"
    /\ assignment_data = None
    /\ assignment_prompt = NoText
    /\ setup_event = [ kind |-> "none" ]
    /\ conversation_history = << >>
    /\ sent = << >>
    /\ calls = << >>
    /\ completion = NoText
    /\ received = "none"
    /\ failed = { }
    /\ turns = 0
    /\ incidents = 0
    /\ env \in [ openai_key : BOOLEAN, learnlm : BOOLEAN, elevenlabs : BOOLEAN ]

WsIdle ==
    /\ WsInit
    /\ env = [ openai_key |-> TRUE, learnlm |-> TRUE, elevenlabs |-> TRUE ]

\* lines 1266-1453: accept, check the key, select the level configuration
Connect(lvl) ==
    /\ pc = "connecting"
    /\ url_level' = lvl
    /\ level' = lvl
    /\ IF ~ env.openai_key
       THEN /\ sent' = << NoKeyFrame >>
            /\ pc' = "closed"
            /\ UNCHANGED config_key
       ELSE /\ sent' = << >>
            /\ pc' = "setup"
            /\ config_key' = ConfigKey(lvl)
    /\ UNCHANGED << assignment_data, assignment_prompt, setup_event,
                    conversation_history, calls, completion, received, failed,
                    turns, incidents, env >>
    /\ UNCHANGED << pbVars, dbVars, mcVars, enVars, scVars, acVars >>

\* lines 1557-1583: speak or write the icebreaker, start the history
FinishSetup(locals, icebreaker, ice_calls, event, tts, alive) ==
    /\ level' = locals.level
    /\ assignment_data' = locals.assignment_data
    /\ assignment_prompt' = locals.assignment_prompt
    /\ setup_event' = event
    /\ calls' = ice_calls
    /\ failed' = IF GenerateSpeechRaises(env.elevenlabs, tts) THEN { "speech" } ELSE { }
    /\ IF ~ alive
       THEN /\ sent' = << >>
            /\ pc' = "closed"
            /\ UNCHANGED conversation_history
       ELSE /\ sent' = IF GenerateSpeechRaises(env.elevenlabs, tts)
                       THEN << BotFrame(icebreaker) >>
                       ELSE << VoiceFrame(icebreaker, NoText) >>
            /\ pc' = "loop"
            /\ conversation_history' =
                  << Entry("system", SystemPrompt(locals.assignment_prompt, config_key)),
                     Entry("assistant", icebreaker) >>
    /\ UNCHANGED << url_level, config_key, completion, received, turns, incidents, env >>
    /\ UNCHANGED << pbVars, dbVars, mcVars, enVars, scVars, acVars >>

\* asyncio.TimeoutError after the 1-second wait
SetupTimeout(icebreaker, tts, alive) ==
    /\ pc = "setup"
    /\ icebreaker \in Icebreakers(config_key)
    /\ FinishSetup(Practice(level, None), icebreaker, << >>, [ kind |-> "timeout" ], tts, alive)

\* a first frame arrives within the wait
SetupMessage(msg, icebreaker, fallback, lo, oo, oo2, tts, alive) ==
    /\ pc = "setup"
    /\ icebreaker \in Icebreakers(config_key)
    /\ fallback \in Icebreakers(config_key)
    /\ LET locals == SetupLocals(msg, level)
           ice    == IF locals.contextual
                     THEN ContextualIcebreaker(env.learnlm, locals.level,
                                               locals.assignment_data, lo, oo, oo2, fallback)
                     ELSE [ text |-> icebreaker, calls |-> << >> ]
       IN  FinishSetup(locals, ice.text, ice.calls, [ kind |-> "message", msg |-> msg ],
                       tts, alive)

(***************************************************************************)
(* Conversation loop, lines 1585-1708                                      *)
(***************************************************************************)
\* what the Whisper call (and the base64 decoding before it) does
TranscriptionOutcomes ==
    { [ ok |-> TRUE, text |-> t ] : t \in ClientTexts }
        \cup { [ ok |-> FALSE, text |-> NoText ] }

\* which of the two turn bounds applies to this connection
TurnLimit ==
    IF \/ setup_event.kind = "timeout"
       \/ /\ assignment_data = GoodAssignment
          /\ conversation_history[2].content = Bien
    THEN MaxTurns
    ELSE ShortTurns

\* the step counts against MaxIncidents unless it is a plain reply
Budget(incident) ==
    /\ incidents' = incidents + (IF incident THEN 1 ELSE 0)
    /\ incidents' <= MaxIncidents

\* {"type": "text", "content": ...} or the legacy "user:..." frame
TextTurn(content, lo, oo) ==
    /\ pc = "loop"
    /\ turns < TurnLimit
    /\ LET h1           == Append(conversation_history, Entry("user", content))
           r            == GetAiResponse(h1, level, assignment_data, env.learnlm, lo, oo)
           bot_response == ContentFilter(r.text)
           h2           == Append(h1, Entry("assistant", bot_response))
       IN  /\ Budget(r.text # Bien \/ Len(r.calls) > 1)
           /\ conversation_history' = Truncate(h2)
           /\ completion' = r.text
           /\ calls' = r.calls
           /\ sent' = << BotFrame(bot_response) >>
           /\ pc' = "loop"
    /\ turns' = turns + 1
    /\ received' = "text"
    /\ failed' = { }
    /\ UNCHANGED << url_level, level, config_key, assignment_data, assignment_prompt,
                    setup_event, env >>
    /\ UNCHANGED << pbVars, dbVars, mcVars, enVars, scVars, acVars >>

\* {"type": "voice", "audio": ...}
VoiceTurn(stt, lo, oo, tts) ==
    /\ pc = "loop"
    /\ turns < TurnLimit
    /\ IF ~ stt.ok
       THEN /\ Budget(TRUE)
            /\ UNCHANGED conversation_history
            /\ completion' = NoText
            /\ calls' = << >>
            /\ failed' = { "transcription" }
            /\ sent' = << ErrorFrame >>
            /\ pc' = "loop"
       ELSE LET user_message == stt.text
                h1           == Append(conversation_history, Entry("user", user_message))
                r            == GetAiResponse(h1, level, assignment_data, env.learnlm, lo, oo)
                bot_response == ContentFilter(r.text)
                h2           == Append(h1, Entry("assistant", bot_response))
                speech_fails == GenerateSpeechRaises(env.elevenlabs, tts)
            IN  /\ Budget(r.text # Bien \/ Len(r.calls) > 1 \/ speech_fails)
                /\ conversation_history' = Truncate(h2)
                /\ completion' = r.text
                /\ calls' = r.calls
                /\ failed' = IF speech_fails THEN { "speech" } ELSE { }
                /\ sent' = IF speech_fails
                           THEN << ErrorFrame >>
                           ELSE << VoiceFrame(bot_response, user_message) >>
                /\ pc' = "loop"
    /\ turns' = turns + 1
    /\ received' = "voice"
    /\ UNCHANGED << url_level, level, config_key, assignment_data, assignment_prompt,
                    setup_event, env >>
    /\ UNCHANGED << pbVars, dbVars, mcVars, enVars, scVars, acVars >>

\* a frame that is neither: not JSON and not "user:...", JSON that is not an
\* object, or an object of another type
MalformedKinds == { "notjson", "nonobject", "othertype" }

MalformedMessage(kind, alive) ==
    /\ pc = "loop"
    /\ turns < TurnLimit
    /\ Budget(kind # "nonobject")
    /\ completion' = NoText
    /\ calls' = << >>
    /\ IF kind = "nonobject"
       THEN \* message_data.get raises AttributeError: lines 1700-1708
            /\ sent' = IF alive THEN << LoopErrorFrame >> ELSE << >>
            /\ pc' = "closed"
       ELSE /\ sent' = << >>
            /\ pc' = "loop"
    /\ turns' = turns + 1
    /\ received' = kind
    /\ failed' = { }
    /\ UNCHANGED << url_level, level, config_key, assignment_data, assignment_prompt,
                    setup_event, conversation_history, env >>
    /\ UNCHANGED << pbVars, dbVars, mcVars, enVars, scVars, acVars >>

\* the client is gone: receive_text raises WebSocketDisconnect (lines 1696-1698),
\* or a send_text of the turn in progress raises and the handlers of lines
\* 1689-1708 leave the loop; either way nothing more reaches the client
ClientDisconnect ==
    /\ pc = "loop"
    /\ pc' = "closed"
    /\ sent' = << >>
    /\ calls' = << >>
    /\ completion' = NoText
    /\ received' = "disconnect"
    /\ failed' = { }
    /\ UNCHANGED << url_level, level, config_key, assignment_data, assignment_prompt,
                    setup_event, conversation_history, turns, incidents, env >>
    /\ UNCHANGED << pbVars, dbVars, mcVars, enVars, scVars, acVars >>

(***************************************************************************)
(* Prompt builder applied to bounded inputs                                *)
(***************************************************************************)
\* bound on the length of a vocabulary list
MaxVocab == 2

PromptWords == { Gato, Perro, SiNo }

RECURSIVE ListsUpTo(_, _)
\* all lists over words of length at most n
ListsUpTo(words, n) ==
    IF n = 0 THEN { << >> }
    ELSE LET shorter == ListsUpTo(words, n - 1)
         IN  shorter \cup { Append(l, w) : l \in shorter, w \in words }

\* values of the "vocab" key
VocabValues ==
    { List(l) : l \in ListsUpTo(PromptWords, MaxVocab) } \cup { Number(0), Number(7) }

\* assignment payloads given to build_parts_prompt: with and without the keys
\* vocab, title and level
PromptAssignments ==
    LET bases == { [ avatar_role |-> << "vendedor" >> ],
                   [ avatar_role |-> << "vendedor" >>, title |-> << "Mercado" >> ],
                   [ avatar_role |-> << "vendedor" >>, level |-> "advanced" ],
                   [ avatar_role |-> << "vendedor" >>, title |-> << "Mercado" >>,
                     level |-> "advanced" ] }
    IN  bases \cup { ("vocab" :> v) @@ b : v \in VocabValues, b \in bases }

PbInit ==
    /\ pb_input = [ called |-> FALSE ]
    /\ parts_prompt = NoText

\* build_parts_prompt(a_data, lvl) is called and returns or raises
BuildPrompt(a_data, lvl) ==
    /\ pb_input' = [ called |-> TRUE, assignment_data |-> a_data, level |-> lvl,
                     raised |-> PartsPromptRaises(a_data) ]
    /\ parts_prompt' = IF PartsPromptRaises(a_data) THEN NoText
                       ELSE BuildPartsPrompt(a_data, lvl)
    /\ UNCHANGED << dbVars, wsVars, mcVars, enVars, scVars, acVars >>

(***************************************************************************)
(* Specifications                                                          *)
(***************************************************************************)
(***************************************************************************)
(* init_database: the schema statements in the order they are executed     *)
(***************************************************************************)
Tables == { "teachers", "classrooms", "students", "enrollments", "assignments",
            "assignment_sessions", "conversation_logs" }

NoTable == [ exists |-> FALSE, columns |-> { } ]

Create(table, columns) == [ op |-> "create", table |-> table, columns |-> columns ]
AddColumn(table, column) == [ op |-> "add", table |-> table, columns |-> { column } ]
AddIfMissing(table, column) == [ op |-> "add_if_missing", table |-> table, columns |-> { column } ]

\* the statements of init_database, in source order
Statements ==
    << Create("teachers", { "id", "name", "email", "password_hash", "school", "title",
                            "bio", "created_at" }),
       AddColumn("teachers", "school"),
       AddColumn("teachers", "title"),
       AddColumn("teachers", "bio"),
       AddColumn("teachers", "password_hash"),
       Create("classrooms", { "id", "teacher_id", "name", "description", "grade_level",
                              "subject", "spanish_level", "is_advanced", "join_code",
                              "is_active", "created_at" }),
       AddColumn("classrooms", "spanish_level"),
       AddColumn("classrooms", "is_advanced"),
       AddColumn("assignments", "due_date"),
       AddColumn("assignment_sessions", "is_active"),
       Create("students", { "id", "name", "email", "password_hash", "grade_level",
                            "created_at" }),
       AddColumn("students", "password_hash"),
       AddColumn("students", "is_active"),
       Create("enrollments", { "id", "student_id", "classroom_id", "enrolled_at",
                               "is_active" }),
       Create("assignments", { "id", "classroom_id", "title", "description",
                               "instructions", "level", "duration", "due_date", "prompt",
                               "vocab", "min_vocab_words", "is_active", "created_at" }),
       AddColumn("assignments", "min_vocab_words"),
       AddColumn("assignment_sessions", "attempt_number"),
       Create("assignment_sessions", { "id", "assignment_id", "student_id", "start_time",
                                       "end_time", "completed", "message_count",
                                       "voice_used", "transcript_used", "is_active",
                                       "submitted_for_grading", "created_at" }),
       AddIfMissing("assignment_sessions", "submitted_for_grading"),
       Create("conversation_logs", { "id", "session_id", "message_type", "content",
                                     "timestamp", "created_at" }),
       AddColumn("conversation_logs", "created_at") >>

\* columns a table gets only from an ALTER TABLE ... ADD COLUMN
Migrated(table) ==
    { Statements[i].columns : i \in { j \in DOMAIN Statements :
          Statements[j].op # "create" /\ Statements[j].table = table } }

\* the columns named by the CREATE TABLE statement of a table
Declared(table) ==
    (CHOOSE st \in { Statements[i] : i \in DOMAIN Statements } :
        st.op = "create" /\ st.table = table).columns

\* every column the operations use
Required(table) == Declared(table) \cup UNION Migrated(table)

\* one statement on schema sch: the schema after it and whether it raised.
\* CREATE TABLE IF NOT EXISTS leaves an existing table as it is; ALTER TABLE
\* of a missing table fails with "no such table", which the handlers re-raise;
\* with "duplicate column name" it is ignored
Execute(st, sch) ==
    IF st.op = "create"
    THEN [ schema |-> IF sch[st.table].exists THEN sch
                      ELSE [ sch EXCEPT ![st.table] =
                               [ exists |-> TRUE, columns |-> st.columns ] ],
           raised |-> FALSE ]
    ELSE IF ~ sch[st.table].exists
         THEN [ schema |-> sch, raised |-> TRUE ]
         ELSE [ schema |-> [ sch EXCEPT ![st.table].columns = @ \cup st.columns ],
                raised |-> FALSE ]

RECURSIVE Run(_, _)
\* the statements one after the other until one raises; each statement is
\* committed on its own, so what ran before the raise stays
Run(stmts, sch) ==
    IF stmts = << >>
    THEN [ schema |-> sch, raised |-> FALSE ]
    ELSE LET r == Execute(Head(stmts), sch)
         IN  IF r.raised THEN r ELSE Run(Tail(stmts), r.schema)

\* a table as an earlier version of the program created it: without the
\* columns that later versions add
Earlier(table) == [ exists |-> TRUE, columns |-> Declared(table) \ UNION Migrated(table) ]

Current(table) == [ exists |-> TRUE, columns |-> Required(table) ]

\* database files the program can be started on: each table missing, as an
\* earlier version left it, or complete
StartingSchemas ==
    [ Tables -> { "missing", "earlier", "current" } ]

SchemaOf(start) ==
    [ t \in Tables |->
        IF start[t] = "missing" THEN NoTable
        ELSE IF start[t] = "earlier" THEN Earlier(t)
        ELSE Current(t) ]

\* the other parts of the model run on an initialised database
ScInit ==
    /\ schema = [ t \in Tables |-> Current(t) ]
    /\ init_result = "none"

\* DatabaseManager(): init_database on the file as it is
InitDatabase ==
    /\ LET r == Run(Statements, schema)
       IN  /\ schema' = r.schema
           /\ init_result' = IF r.raised THEN "raised" ELSE "completed"
    /\ UNCHANGED << pbVars, dbVars, wsVars, mcVars, enVars, acVars >>

(***************************************************************************)
(* Accounts: the teacher and student records and what endpoints return     *)
(***************************************************************************)
TeacherIds == { "t1" }

\* the password an enrollment by join code gives a new student, and another
DefaultPassword == "temp123"
Passwords == { DefaultPassword, "secret" }

\* values a profile update can carry for "name"; None: the key is absent
TeacherNames == { << "Ana" >>, NoText }

\* hash_password: hashlib.sha256(password.encode()).hexdigest()
HashPassword(password) == << "sha256", password >>

\* verify_password
VerifyPassword(password, password_hash) == HashPassword(password) = password_hash

\* columns of CREATE TABLE teachers and CREATE TABLE students
TeacherColumns ==
    { "id", "name", "email", "password_hash", "school", "title", "bio", "created_at" }
StudentColumns ==
    { "id", "name", "email", "password_hash", "grade_level", "created_at" }

NoTeacher == [ row |-> FALSE, name |-> NoText, password_hash |-> << >> ]

AcInit ==
    /\ teachers = [ t \in TeacherIds |-> NoTeacher ]
    /\ student_hashes = [ s \in StudentIds |-> << >> ]

\* dict(row) of a row selected with the given columns
DictOfRow(columns, id, name, password_hash) ==
    [ col \in columns |->
        CASE col = "id" -> << id >>
          [] col = "name" -> name
          [] col = "password_hash" -> password_hash
          [] OTHER -> << col >> ]

\* del record[key]
Del(record, key) == [ col \in DOMAIN record \ { key } |-> record[col] ]

\* db.get_teacher_by_id and db.get_teacher_by_email: SELECT * FROM teachers
GetTeacherById(rows, t) ==
    IF rows[t].row
    THEN DictOfRow(TeacherColumns, t, rows[t].name, rows[t].password_hash)
    ELSE None

\* db.authenticate_teacher
AuthenticateTeacher(rows, t, password) ==
    LET teacher == GetTeacherById(rows, t)
    IN  IF teacher # None /\ VerifyPassword(password, teacher["password_hash"])
        THEN Del(teacher, "password_hash")
        ELSE None

\* db.get_student_by_id and db.get_student_by_email: SELECT * FROM students
GetStudentById(studs, hashes, s) ==
    IF s \in studs
    THEN DictOfRow(StudentColumns, s, << s >>, hashes[s])
    ELSE None

\* db.authenticate_student
AuthenticateStudent(studs, hashes, s, password) ==
    LET student == GetStudentById(studs, hashes, s)
    IN  IF student # None /\ VerifyPassword(password, student["password_hash"])
        THEN Del(student, "password_hash")
        ELSE None

(***************************************************************************)
(* Classrooms and enrollments: the REST endpoints and their store calls    *)
(***************************************************************************)
ClassroomIds == { "c1", "c2" }

\* random.choices(string.ascii_uppercase + string.digits, k=6): two of the
\* codes it can draw
GeneratedCodes == { "AAAAAA", "BBBBBB" }

\* a code that is never generated, so no classroom has it
UnknownJoinCode == "zzzzzz"

JoinCodes == GeneratedCodes \cup { UnknownJoinCode }

NoRequest == [ endpoint |-> "none", status |-> 0, missing |-> FALSE,
               student_id |-> "none", classroom_id |-> "none", records |-> { } ]

EnInit ==
    /\ classrooms = [ c \in ClassroomIds |-> NoRow @@ [ join_code |-> "none" ] ]
    /\ students = { }
    /\ enrollments = << >>
    /\ http = NoRequest

\* try: ... raise HTTPException(status_code=raised) ...
\* except Exception as e: raise HTTPException(status_code=500, detail=str(e))
\* HTTPException is an Exception, so the handler catches what the body raised
\* (raised = 0: the body returned)
ResponseStatus(raised) == IF raised = 0 THEN 200 ELSE 500

\* db.get_classroom_by_join_code: WHERE c.join_code = ? AND c.is_active = TRUE
\* (the teacher of a classroom is taken to have its row)
GetClassroomByJoinCode(rows, join_code) ==
    { c \in ClassroomIds :
        rows[c].row /\ rows[c].join_code = join_code /\ rows[c].is_active }

\* db._generate_join_code: the codes the loop can return, those for which
\* get_classroom_by_join_code finds nothing
GenerateJoinCode(rows) ==
    { code \in GeneratedCodes : GetClassroomByJoinCode(rows, code) = { } }

\* the rows of a (student, classroom) pair
PairEnrollments(rows, s, c) ==
    { i \in 1..Len(rows) : rows[i].student_id = s /\ rows[i].classroom_id = c }

\* db.enroll_student: INSERT OR IGNORE under UNIQUE(student_id, classroom_id);
\* is_active takes its default TRUE
InsertOrIgnore(rows, s, c) ==
    IF PairEnrollments(rows, s, c) # { }
    THEN rows
    ELSE Append(rows, [ student_id |-> s, classroom_id |-> c, is_active |-> TRUE ])

\* db.remove_student_enrollment: UPDATE ... SET is_active = FALSE WHERE the pair
Deactivated(rows, s, c) ==
    [ i \in 1..Len(rows) |->
        IF rows[i].student_id = s /\ rows[i].classroom_id = c
        THEN [ rows[i] EXCEPT !.is_active = FALSE ]
        ELSE rows[i] ]

\* UPDATE enrollments SET is_active = FALSE WHERE classroom_id = ?
DeactivatedClassroom(rows, c) ==
    [ i \in 1..Len(rows) |->
        IF rows[i].classroom_id = c
        THEN [ rows[i] EXCEPT !.is_active = FALSE ]
        ELSE rows[i] ]

\* db.get_classroom_students(c): ids of the students listed
GetClassroomStudents(rows, studs, c) ==
    { s \in studs : \E i \in 1..Len(rows) :
        /\ rows[i].student_id = s /\ rows[i].classroom_id = c /\ rows[i].is_active }

\* db.get_student_classrooms(s): ids of the classrooms listed
GetStudentClassrooms(rows, rooms, s) ==
    { c \in ClassroomIds :
        /\ rooms[c].row /\ rooms[c].is_active
        /\ \E i \in 1..Len(rows) :
              /\ rows[i].student_id = s /\ rows[i].classroom_id = c /\ rows[i].is_active }

\* POST /api/classrooms: the new row gets the fresh id c and the join code
\* the generator returned; join_code is UNIQUE, so the INSERT raises
\* IntegrityError when a row, active or not, has the code
CreateClassroom(c, join_code) ==
    /\ ~ classrooms[c].row
    /\ join_code \in GenerateJoinCode(classrooms)
    /\ IF \E d \in ClassroomIds : classrooms[d].row /\ classrooms[d].join_code = join_code
       THEN /\ http' = [ NoRequest EXCEPT !.endpoint = "create_classroom",
                                         !.status = ResponseStatus(500) ]
            /\ UNCHANGED classrooms
       ELSE /\ classrooms' = [ classrooms EXCEPT ![c] =
                                 [ row |-> TRUE, is_active |-> TRUE,
                                   join_code |-> join_code ] ]
            /\ http' = [ NoRequest EXCEPT !.endpoint = "create_classroom",
                                         !.status = ResponseStatus(0),
                                         !.classroom_id = c ]
    /\ UNCHANGED << students, enrollments >>
    /\ UNCHANGED << pbVars, dbVars, wsVars, mcVars, scVars, acVars >>

\* DELETE /api/classrooms/{classroom_id}: db.delete_classroom reports the
\* row count of its last UPDATE, the one on the assignments of the classroom
\* (which classroom an assignment belongs to is not part of this model, so
\* whether the classroom has assignments is an input)
DeleteClassroom(c, has_assignments) ==
    /\ has_assignments => classrooms[c].row
    /\ classrooms' = [ classrooms EXCEPT ![c].is_active = FALSE ]
    /\ enrollments' = DeactivatedClassroom(enrollments, c)
    /\ http' = [ NoRequest EXCEPT !.endpoint = "delete_classroom",
                                 !.status = ResponseStatus(IF has_assignments THEN 0 ELSE 404),
                                 !.missing = ~ classrooms[c].row,
                                 !.classroom_id = c ]
    /\ UNCHANGED students
    /\ UNCHANGED << pbVars, dbVars, wsVars, mcVars, scVars, acVars >>

\* POST /api/enroll with the e-mail address of student s
EnrollStudent(s, join_code) ==
    LET classroom == GetClassroomByJoinCode(classrooms, join_code)
    IN  /\ IF classroom = { }
           THEN /\ http' = [ NoRequest EXCEPT !.endpoint = "enroll",
                                             !.status = ResponseStatus(404),
                                             !.missing = TRUE,
                                             !.student_id = s ]
                /\ UNCHANGED << students, enrollments, student_hashes >>
           ELSE LET c == CHOOSE c \in classroom : TRUE
                IN  /\ students' = students \cup { s }
                    /\ student_hashes' =
                          IF s \in students THEN student_hashes
                          ELSE [ student_hashes EXCEPT ![s] = HashPassword(DefaultPassword) ]
                    /\ enrollments' = InsertOrIgnore(enrollments, s, c)
                    /\ http' = [ NoRequest EXCEPT !.endpoint = "enroll",
                                                 !.status = ResponseStatus(0),
                                                 !.student_id = s,
                                                 !.classroom_id = c ]
        /\ UNCHANGED << classrooms, teachers >>
        /\ UNCHANGED << pbVars, dbVars, wsVars, mcVars, scVars >>

\* POST /api/students/classrooms/leave and DELETE /api/enroll/{s}/{c}: both
\* call db.remove_student_enrollment and raise 404 when it changed no row
RemoveStudentEnrollment(endpoint, s, c) ==
    LET found == PairEnrollments(enrollments, s, c) # { }
    IN  /\ enrollments' = Deactivated(enrollments, s, c)
        /\ http' = [ NoRequest EXCEPT !.endpoint = endpoint,
                                     !.status = ResponseStatus(IF found THEN 0 ELSE 404),
                                     !.missing = ~ found,
                                     !.student_id = s,
                                     !.classroom_id = c ]
        /\ UNCHANGED << classrooms, students >>
        /\ UNCHANGED << pbVars, dbVars, wsVars, mcVars, scVars, acVars >>

\* POST /api/teachers/signup (except HTTPException: raise keeps the 400)
TeacherSignup(t, password) ==
    /\ IF GetTeacherById(teachers, t) # None
       THEN /\ http' = [ NoRequest EXCEPT !.endpoint = "teacher_signup", !.status = 400 ]
            /\ UNCHANGED teachers
       ELSE LET created == [ teachers EXCEPT ![t] =
                               [ row |-> TRUE, name |-> << t >>,
                                 password_hash |-> HashPassword(password) ] ]
                teacher == GetTeacherById(created, t)
            IN  /\ teachers' = created
                /\ http' = [ NoRequest EXCEPT !.endpoint = "teacher_signup",
                                             !.status = 200,
                                             !.records = { Del(teacher, "password_hash") } ]
    /\ UNCHANGED << classrooms, students, enrollments, student_hashes >>
    /\ UNCHANGED << pbVars, dbVars, wsVars, mcVars, scVars >>

\* POST /api/teachers/login
TeacherLogin(t, password) ==
    /\ LET teacher == AuthenticateTeacher(teachers, t, password)
       IN  http' = IF teacher = None
                   THEN [ NoRequest EXCEPT !.endpoint = "teacher_login", !.status = 401 ]
                   ELSE [ NoRequest EXCEPT !.endpoint = "teacher_login",
                                           !.status = 200,
                                           !.records = { teacher } ]
    /\ UNCHANGED << classrooms, students, enrollments >>
    /\ UNCHANGED << pbVars, dbVars, wsVars, mcVars, scVars, acVars >>

\* GET /api/teachers/{teacher_id}
GetTeacher(t) ==
    /\ LET teacher == GetTeacherById(teachers, t)
       IN  http' = IF teacher = None
                   THEN [ NoRequest EXCEPT !.endpoint = "get_teacher",
                                           !.status = 404, !.missing = TRUE ]
                   ELSE [ NoRequest EXCEPT !.endpoint = "get_teacher",
                                           !.status = 200,
                                           !.records = { teacher } ]
    /\ UNCHANGED << classrooms, students, enrollments >>
    /\ UNCHANGED << pbVars, dbVars, wsVars, mcVars, scVars, acVars >>

\* PUT /api/teachers/{teacher_id}: db.update_teacher returns False when the
\* request carries no field or no row has the id
UpdateTeacher(t, name) ==
    /\ LET success == name # NoText /\ teachers[t].row
           updated == IF success THEN [ teachers EXCEPT ![t].name = name ] ELSE teachers
       IN  /\ teachers' = updated
           /\ http' = IF success
                      THEN [ NoRequest EXCEPT !.endpoint = "update_teacher",
                                              !.status = ResponseStatus(0),
                                              !.records = { GetTeacherById(updated, t) } ]
                      ELSE [ NoRequest EXCEPT !.endpoint = "update_teacher",
                                              !.status = ResponseStatus(404),
                                              !.missing = ~ teachers[t].row ]
    /\ UNCHANGED << classrooms, students, enrollments, student_hashes >>
    /\ UNCHANGED << pbVars, dbVars, wsVars, mcVars, scVars >>

\* POST /api/students/signup
StudentSignup(s, password) ==
    /\ IF GetStudentById(students, student_hashes, s) # None
       THEN /\ http' = [ NoRequest EXCEPT !.endpoint = "student_signup",
                                         !.status = 400, !.student_id = s ]
            /\ UNCHANGED << students, student_hashes >>
       ELSE LET hashes == [ student_hashes EXCEPT ![s] = HashPassword(password) ]
                student == GetStudentById(students \cup { s }, hashes, s)
            IN  /\ students' = students \cup { s }
                /\ student_hashes' = hashes
                /\ http' = [ NoRequest EXCEPT !.endpoint = "student_signup",
                                             !.status = 200,
                                             !.student_id = s,
                                             !.records = { Del(student, "password_hash") } ]
    /\ UNCHANGED << classrooms, enrollments, teachers >>
    /\ UNCHANGED << pbVars, dbVars, wsVars, mcVars, scVars >>

\* POST /api/students/login
StudentLogin(s, password) ==
    /\ LET student == AuthenticateStudent(students, student_hashes, s, password)
       IN  http' = IF student = None
                   THEN [ NoRequest EXCEPT !.endpoint = "student_login",
                                           !.status = 401, !.student_id = s ]
                   ELSE [ NoRequest EXCEPT !.endpoint = "student_login",
                                           !.status = 200,
                                           !.student_id = s,
                                           !.records = { student } ]
    /\ UNCHANGED << classrooms, students, enrollments >>
    /\ UNCHANGED << pbVars, dbVars, wsVars, mcVars, scVars, acVars >>

\* GET /api/classrooms/{classroom_id}/students: db.get_classroom_students
\* selects s.*, e.enrolled_at and the endpoint returns the rows as they are
ListClassroomStudents(c) ==
    /\ http' = [ NoRequest EXCEPT
                   !.endpoint = "get_classroom_students",
                   !.status = ResponseStatus(0),
                   !.classroom_id = c,
                   !.records =
                       { DictOfRow(StudentColumns \cup { "enrolled_at" },
                                   s, << s >>, student_hashes[s]) :
                           s \in GetClassroomStudents(enrollments, students, c) } ]
    /\ UNCHANGED << classrooms, students, enrollments >>
    /\ UNCHANGED << pbVars, dbVars, wsVars, mcVars, scVars, acVars >>

(***************************************************************************)
(* Several connections: one call of websocket_endpoint each                *)
(***************************************************************************)
ConnIds == { "k1", "k2" }

\* bound on the frames a client sends after the set-up
MaxFrames == 2

\* what a client sends as "content" when several clients talk
FrameTexts == { Hola, Gato }

\* frames the set-up wait of a connection can receive: none that parses, an
\* assignment, or a text message the client sends right after connecting
FirstFrames ==
    { [ json |-> "invalid" ],
      [ json |-> "object", type |-> "assignment_setup", assignment |-> GoodAssignment ],
      [ json |-> "object", type |-> "text" ] }

\* a connection that is not accepted yet: at is the await its call is parked
\* at, first the frame its set-up wait consumed, inbox the frames the
\* transport holds for it, read and replied the numbers of the frames it has
\* read and answered
NotOpen ==
    [ at |-> "accept", level |-> "none", assignment_data |-> None,
      conversation_history |-> << >>, bot_response |-> NoText,
      first |-> "none", inbox |-> << >>, arrived |-> 0, message |-> 0,
      read |-> << >>, replied |-> << >> ]

McInit == conns = [ k \in ConnIds |-> NotOpen ]

\* (one history list shared by every call)
WithEntryShared(cs, k, entry) ==
    [ j \in DOMAIN cs |->
        [ cs[j] EXCEPT !.conversation_history = Append(@, entry) ] ]

\* conversation_history.append(...): the list is a local of the call
WithEntry(cs, k, entry) ==
    [ cs EXCEPT ![k].conversation_history = Append(@, entry) ]

\* the call of connection k runs from accept to the first receive of the loop
OpenConnection(k, lvl, msg, icebreaker) ==
    /\ conns[k].at = "accept"
    /\ icebreaker \in Icebreakers(ConfigKey(lvl))
    /\ LET locals == SetupLocals(msg, lvl)
       IN  conns' = [ conns EXCEPT ![k] =
                        [ @ EXCEPT !.at = "receive",
                                   !.first = IF msg.json = "object" THEN msg.type
                                             ELSE "invalid",
                                   !.level = locals.level,
                                   !.assignment_data = locals.assignment_data,
                                   !.conversation_history =
                                       << Entry("system", SystemPrompt(locals.assignment_prompt,
                                                                       ConfigKey(lvl))),
                                          Entry("assistant", icebreaker) >> ] ]
    /\ UNCHANGED << pbVars, dbVars, wsVars, enVars, scVars, acVars >>

\* the client of connection k sends a text frame; the transport queues it
FrameArrives(k, content) ==
    /\ conns[k].at # "accept"
    /\ conns[k].arrived < MaxFrames
    /\ conns' = [ conns EXCEPT ![k] =
                    [ @ EXCEPT !.arrived = @ + 1,
                               !.inbox = Append(@, [ n |-> conns[k].arrived + 1,
                                                     content |-> content ]) ] ]
    /\ UNCHANGED << pbVars, dbVars, wsVars, enVars, scVars, acVars >>

\* await websocket.receive_text() returns; the call runs to await get_ai_response
ReceiveText(k) ==
    /\ conns[k].at = "receive"
    /\ conns[k].inbox # << >>
    /\ LET frame == Head(conns[k].inbox)
           taken == [ conns EXCEPT ![k] =
                        [ @ EXCEPT !.at = "respond",
                                   !.inbox = Tail(@),
                                   !.message = frame.n,
                                   !.read = Append(@, frame.n) ] ]
       IN  conns' = WithEntry(taken, k, Entry("user", frame.content))
    /\ UNCHANGED << pbVars, dbVars, wsVars, enVars, scVars, acVars >>

\* await get_ai_response(...) returns; the call runs to await websocket.send_text
AiResponds(k, text) ==
    /\ conns[k].at = "respond"
    /\ LET bot_response == ContentFilter(text)
           answered     == WithEntry(conns, k, Entry("assistant", bot_response))
       IN  conns' = [ answered EXCEPT ![k] =
                        [ @ EXCEPT !.at = "send",
                                   !.bot_response = bot_response,
                                   !.conversation_history = Truncate(@) ] ]
    /\ UNCHANGED << pbVars, dbVars, wsVars, enVars, scVars, acVars >>

\* await websocket.send_text(...) returns; the call is back at the receive
SendText(k) ==
    /\ conns[k].at = "send"
    /\ conns' = [ conns EXCEPT ![k] =
                    [ @ EXCEPT !.at = "receive",
                               !.replied = Append(@, conns[k].message) ] ]
    /\ UNCHANGED << pbVars, dbVars, wsVars, enVars, scVars, acVars >>

InitConnections == PbInit /\ DbInit /\ WsIdle /\ McInit /\ EnInit /\ ScInit /\ AcInit

NextConnections ==
    \/ \E k \in ConnIds, lvl \in UrlLevels, msg \in FirstFrames :
          \* random.choice is taken to draw the first of the list
          OpenConnection(k, lvl, msg, << "icebreaker 1 of ", ConfigKey(lvl) >>)
    \/ \E k \in ConnIds, content \in FrameTexts : FrameArrives(k, content)
    \/ \E k \in ConnIds : ReceiveText(k)
    \/ \E k \in ConnIds : AiResponds(k, Bien)
    \/ \E k \in ConnIds : SendText(k)

\* two clients connected to one server process
SpecConnections == InitConnections /\ [][NextConnections]_vars

\* the same with clients that stay connected and provider calls that return:
\* a call parked at an await is resumed
SpecConnectionsFair ==
    /\ SpecConnections
    /\ \A k \in ConnIds :
          /\ WF_vars(ReceiveText(k))
          /\ WF_vars(AiResponds(k, Bien))
          /\ WF_vars(SendText(k))

InitEnrollment == PbInit /\ DbInit /\ WsIdle /\ McInit /\ EnInit /\ ScInit /\ AcInit

NextEnrollment ==
    \/ \E c \in ClassroomIds, join_code \in GeneratedCodes : CreateClassroom(c, join_code)
    \/ \E c \in ClassroomIds, has_assignments \in BOOLEAN : DeleteClassroom(c, has_assignments)
    \/ \E s \in StudentIds, join_code \in JoinCodes : EnrollStudent(s, join_code)
    \/ \E endpoint \in { "leave_classroom", "remove_enrollment" },
          s \in StudentIds, c \in ClassroomIds : RemoveStudentEnrollment(endpoint, s, c)

\* the classroom and enrollment endpoints
SpecEnrollment == InitEnrollment /\ [][NextEnrollment]_vars

(***************************************************************************)
(* The event loop: uvicorn.run(app) serves every connection and every REST *)
(* request on one thread                                                   *)
(***************************************************************************)
\* get_ai_response holds no await: generate_content and chat.completions.create
\* are called synchronously, so the thread stays inside the call of the
\* connection that issued it until the provider returns
ThreadBusy == \E j \in ConnIds : conns[j].at = "respond"

\* the loop starts or resumes a call only when the thread is free
LoopOpenConnection(k, lvl, msg, icebreaker) ==
    ~ ThreadBusy /\ OpenConnection(k, lvl, msg, icebreaker)

LoopReceiveText(k) == ~ ThreadBusy /\ ReceiveText(k)

LoopSendText(k) == ~ ThreadBusy /\ SendText(k)

\* async def get_teacher runs on the same loop
LoopGetTeacher(t) == ~ ThreadBusy /\ GetTeacher(t)

LoopTeacherSignup(t, password) == ~ ThreadBusy /\ TeacherSignup(t, password)

NextEventLoop ==
    \/ \E k \in ConnIds, lvl \in UrlLevels, msg \in FirstFrames :
          LoopOpenConnection(k, lvl, msg, << "icebreaker 1 of ", ConfigKey(lvl) >>)
    \/ \E k \in ConnIds, content \in FrameTexts : FrameArrives(k, content)
    \/ \E k \in ConnIds : LoopReceiveText(k)
    \/ \E k \in ConnIds : AiResponds(k, Bien)
    \/ \E k \in ConnIds : LoopSendText(k)
    \/ \E t \in TeacherIds : LoopGetTeacher(t)
    \/ \E t \in TeacherIds : LoopTeacherSignup(t, DefaultPassword)

\* two clients and a REST client of one server process
SpecEventLoop == InitConnections /\ [][NextEventLoop]_vars

\* the connection whose provider call may never return, and the other one
HungConn == "k1"
OtherConn == "k2"

\* the loop resumes what is ready and the provider of the other connection
\* returns; the provider call of HungConn may never return
SpecEventLoopHung ==
    /\ SpecEventLoop
    /\ \A k \in ConnIds :
          /\ WF_vars(LoopReceiveText(k))
          /\ WF_vars(LoopSendText(k))
    /\ WF_vars(AiResponds(OtherConn, Bien))

\* the same when every provider call returns
SpecEventLoopFair == SpecEventLoopHung /\ WF_vars(AiResponds(HungConn, Bien))

(***************************************************************************)
(* Classroom analytics                                                     *)
(***************************************************************************)
\* the NULL a LEFT JOIN puts where no row matches
NullId == "NULL"
NullRow == 0

\* the right side of a LEFT JOIN: the matching rows, or one NULL row
LeftJoin(matching, null) == IF matching = { } THEN { null } ELSE matching

\* the classroom every assignment of the analytics model was created for
AnalyticsClassroom == [ a \in AssignmentIds |-> "c1" ]

\* FROM classrooms c
\*   LEFT JOIN enrollments e ON c.id = e.classroom_id AND e.is_active = TRUE
\*   LEFT JOIN assignments a ON c.id = a.classroom_id AND a.is_active = TRUE
\*   LEFT JOIN assignment_sessions s ON a.id = s.assignment_id
\*  WHERE c.id = ?
\* the joined rows, each the triple of its enrollment, assignment and session
JoinedRows(c, rooms, enrs, asgs, sess) ==
    LET e_rows == LeftJoin({ i \in 1..Len(enrs) :
                               enrs[i].classroom_id = c /\ enrs[i].is_active }, NullRow)
        a_rows == LeftJoin({ a \in AssignmentIds :
                               /\ asgs[a].row /\ asgs[a].is_active
                               /\ AnalyticsClassroom[a] = c }, NullId)
        s_rows(a) == LeftJoin({ j \in 1..Len(sess) : sess[j].assignment_id = a }, NullRow)
    IN  IF rooms[c].row
        THEN UNION { { << e, a, j >> : e \in e_rows, j \in s_rows(a) } : a \in a_rows }
        ELSE { }

\* COUNT(DISTINCT e.student_id), COUNT(DISTINCT a.id), COUNT(DISTINCT s.id) and
\* COUNT(CASE WHEN s.completed = TRUE THEN 1 END) over the joined rows, then
\* the dictionary db.get_classroom_analytics builds; completion_rate is the
\* quotient num / den
ClassroomAnalytics(c, rooms, enrs, asgs, sess) ==
    LET joined == JoinedRows(c, rooms, enrs, asgs, sess)
        total_students ==
            Cardinality({ enrs[r[1]].student_id : r \in { q \in joined : q[1] # NullRow } })
        total_assignments ==
            Cardinality({ r[2] : r \in { q \in joined : q[2] # NullId } })
        total_sessions ==
            Cardinality({ sess[r[3]].id : r \in { q \in joined : q[3] # NullRow } })
        completed_sessions ==
            Cardinality({ r \in joined : r[3] # NullRow /\ sess[r[3]].completed })
    IN  [ total_students     |-> total_students,
          total_assignments  |-> total_assignments,
          total_sessions     |-> total_sessions,
          completed_sessions |-> completed_sessions,
          completion_rate    |-> IF total_sessions > 0
                                 THEN [ num |-> completed_sessions * 100,
                                        den |-> total_sessions ]
                                 ELSE [ num |-> 0, den |-> 1 ] ]

\* GET /api/classrooms/{classroom_id}/analytics
GetClassroomAnalytics(c) ==
    /\ db_result' = [ op |-> "analytics", classroom_id |-> c,
                      analytics |-> ClassroomAnalytics(c, classrooms, enrollments,
                                                       assignments, sessions) ]
    /\ UNCHANGED << assignments, sessions, next_session, txn >>
    /\ UNCHANGED << pbVars, wsVars, logVars, mcVars, enVars, scVars, acVars >>

InitAnalytics == PbInit /\ DbInit /\ WsIdle /\ McInit /\ EnInit /\ ScInit /\ AcInit

NextAnalytics ==
    \/ \E join_code \in GeneratedCodes : CreateClassroom("c1", join_code)
    \/ \E s \in StudentIds, join_code \in GeneratedCodes : EnrollStudent(s, join_code)
    \/ \E a \in AssignmentIds : CreateAssignment(a)
    \/ \E a \in AssignmentIds : DeleteAssignment(a)
    \/ \E a \in AssignmentIds, s \in StudentIds, completed \in BOOLEAN :
          CreateAssignmentSession(a, s, completed)
    \/ \E c \in ClassroomIds : GetClassroomAnalytics(c)

\* the analytics query on every store content within the bounds
SpecAnalytics == InitAnalytics /\ [][NextAnalytics]_vars

InitAccounts == PbInit /\ DbInit /\ WsIdle /\ McInit /\ EnInit /\ ScInit /\ AcInit

NextAccounts ==
    \/ \E join_code \in GeneratedCodes : CreateClassroom("c1", join_code)
    \/ \E s \in StudentIds, join_code \in GeneratedCodes : EnrollStudent(s, join_code)
    \/ \E t \in TeacherIds, password \in Passwords : TeacherSignup(t, password)
    \/ \E t \in TeacherIds, password \in Passwords : TeacherLogin(t, password)
    \/ \E t \in TeacherIds : GetTeacher(t)
    \/ \E t \in TeacherIds, name \in TeacherNames : UpdateTeacher(t, name)
    \/ \E s \in StudentIds, password \in Passwords : StudentSignup(s, password)
    \/ \E s \in StudentIds, password \in Passwords : StudentLogin(s, password)
    \/ \E c \in ClassroomIds : ListClassroomStudents(c)

\* the account endpoints, with the enrollment that creates students
SpecAccounts == InitAccounts /\ [][NextAccounts]_vars

InitSchema ==
    /\ PbInit /\ DbInit /\ WsIdle /\ McInit /\ EnInit /\ AcInit
    /\ \E start \in StartingSchemas : schema = SchemaOf(start)
    /\ init_result = "none"

NextSchema == InitDatabase

\* init_database on every starting schema, and again on its result
SpecSchema == InitSchema /\ [][NextSchema]_vars

InitPrompt == PbInit /\ DbInit /\ WsIdle /\ McInit /\ EnInit /\ ScInit /\ AcInit

NextPrompt == \E a_data \in PromptAssignments, lvl \in UrlLevels : BuildPrompt(a_data, lvl)

\* the prompt builder on every bounded input
SpecPrompt == InitPrompt /\ [][NextPrompt]_vars

InitStore == PbInit /\ DbInit /\ WsIdle /\ McInit /\ EnInit /\ ScInit /\ AcInit

NextStore ==
    \/ \E a \in AssignmentIds : CreateAssignment(a)
    \/ \E a \in AssignmentIds : DeleteAssignment(a)
    \/ \E a \in AssignmentIds, s \in StudentIds :
          \* completed = log_data.get("completed", False): the default
          CreateAssignmentSession(a, s, FALSE)
    \/ \E id \in SessionIds \cup { UnknownSessionId } : SubmitSessionForGrading(id)
    \/ \E orphans \in SUBSET AssignmentIds : CleanupInactiveAssignments(orphans)

\* the store driven by the endpoints of one server process and by the
\* clean-up script: every call runs to completion (update_session has no
\* caller among the endpoints)
SpecStore == InitStore /\ [][NextStore]_vars

NextWorkers ==
    \/ \E a \in AssignmentIds : DeleteAssignment(a)
    \/ \E id \in SessionIds \cup { UnknownSessionId }, c \in BOOLEAN : UpdateSession(id, c)
    \/ \E w \in Workers, id \in SessionIds \cup { UnknownSessionId } : SubmitSelect(w, id)
    \/ \E w \in Workers : SubmitCommit(w)
    \/ \E w \in Workers, a \in AssignmentIds : CreateCount(w, a, "s1", FALSE)
    \/ \E w \in Workers : CreateInsert(w)

\* the store driven by several worker processes whose calls interleave
\* (sessions of assignment ids, soft deletes, updates, submissions)
SpecWorkers == InitStore /\ [][NextWorkers]_vars

NextLogs ==
    \/ \E a \in AssignmentIds : CreateAssignment(a)
    \/ \E a \in AssignmentIds : DeleteAssignment(a)
    \/ \E a \in AssignmentIds, n \in ConversationLengths : SubmitLog(a, "s1", n)
    \/ \E a \in AssignmentIds, n \in ConversationLengths : SaveSession(a, "s1", n)
    \/ \E id \in SessionIds :
       \E order \in OrderedByCreatedAt(logs, id) : GetConversationLogsBySession(id, order)

\* the endpoints that write and read conversation logs, and the soft delete
SpecLogs == InitStore /\ [][NextLogs]_vars

InitSession == PbInit /\ DbInit /\ WsInit /\ McInit /\ EnInit /\ ScInit /\ AcInit

NextSession ==
    \/ \E lvl \in UrlLevels : Connect(lvl)
    \/ /\ pc = "setup"
       /\ \E ice \in Icebreakers(config_key), tts \in SpeechOutcomes, alive \in BOOLEAN :
             SetupTimeout(ice, tts, alive)
    \/ /\ pc = "setup"
       /\ \E msg \in SetupMessages :
          \E lo \in OutcomesIf(env.learnlm /\ SetupLocals(msg, level).contextual) :
          \E oo \in OutcomesIf(~ lo.ok /\ SetupLocals(msg, level).contextual) :
          \E oo2 \in OutcomesIf(~ env.learnlm /\ ~ oo.ok /\ SetupLocals(msg, level).contextual) :
          \E ice \in Icebreakers(config_key), fallback \in Icebreakers(config_key),
             tts \in SpeechOutcomes, alive \in BOOLEAN :
             SetupMessage(msg, ice, fallback, lo, oo, oo2, tts, alive)
    \/ /\ pc = "loop"
       /\ \E content \in ClientTexts :
          \E lo \in OutcomesIf(env.learnlm) : \E oo \in OutcomesIf(~ lo.ok) :
             TextTurn(content, lo, oo)
    \/ /\ pc = "loop"
       /\ \E stt \in TranscriptionOutcomes, tts \in SpeechOutcomes :
          \E lo \in OutcomesIf(stt.ok /\ env.learnlm) : \E oo \in OutcomesIf(stt.ok /\ ~ lo.ok) :
             VoiceTurn(stt, lo, oo, tts)
    \/ \E kind \in MalformedKinds, alive \in BOOLEAN : MalformedMessage(kind, alive)
    \/ ClientDisconnect

\* one WebSocket connection from accept to close
SpecSession == InitSession /\ [][NextSession]_vars

(***************************************************************************)
(* Properties of the conversation loop                                     *)
(***************************************************************************)
\* C1: in a text turn or a voice turn, whenever the completion returned by
\* get_ai_response contains a prohibited word as a case-insensitive substring,
\* the assistant entry appended to the history and the reply text sent to the
\* client are exactly the redirect sentence, and the completion itself is
\* neither sent nor stored by the turn.
C1_ProhibitedReplyIsRedirect ==
    ( /\ completion # NoText
      /\ \E word \in ProhibitedWords : Contains(Lower(completion), word) )
    => /\ conversation_history[Len(conversation_history)] = Entry("assistant", Redirect)
       /\ conversation_history[Len(conversation_history) - 1].role = "user"
       /\ \A i \in 1..Len(sent) :
             /\ sent[i].type \in { "bot", "voice_response" } => sent[i].text = Redirect
             /\ sent[i].text # completion

\* a voice turn whose completion was written in capitals has been answered
C1_Witness ==
    /\ received = "voice"
    /\ completion = Alcoholicas
    /\ sent = << VoiceFrame(Redirect, Hola) >>
    /\ conversation_history[Len(conversation_history)].content = Redirect

\* C2: whenever the loop waits for the next client message, after any mix of
\* text turns and voice turns (those that ended in an error event included),
\* the history has at most 21 entries and its first entry is the system prompt
\* chosen at the end of the set-up.
C2_HistoryBounded ==
    pc = "loop"
    => /\ Len(conversation_history) <= 21
       /\ conversation_history[1] =
             Entry("system", SystemPrompt(assignment_prompt, config_key))

\* the history is full, older turns have been dropped, and the last turn was a
\* voice turn that ended in an error event
C2_Witness ==
    /\ pc = "loop"
    /\ Len(conversation_history) = 21
    /\ turns > 10
    /\ received = "voice"
    /\ sent = << ErrorFrame >>

\* C8: get_ai_response returns a text in every case; when the LearnLM call
\* raises, the OpenAI call is made next with the same messages; when every
\* call raises, the returned text is the apology sentence, the turn appends it
\* as an assistant entry, a text turn sends it as a bot frame, and the loop
\* goes on.
C8_FallbackThenApology ==
    received \in { "text", "voice" } /\ calls # << >>
    => /\ completion # NoText
       /\ \A i \in 1..Len(calls) :
             calls[i].provider = "learnlm" /\ calls[i].raised
             => /\ i < Len(calls)
                /\ calls[i + 1].provider = "openai"
                /\ calls[i + 1].messages = calls[i].messages
       /\ (\A i \in 1..Len(calls) : calls[i].raised)
          => /\ completion = Apology
             /\ conversation_history[Len(conversation_history)] =
                   Entry("assistant", Apology)
             /\ received = "text" => sent = << BotFrame(Apology) >>
             /\ pc = "loop"

\* a text turn in which the LearnLM call and the OpenAI call both raised
C8_Witness ==
    /\ received = "text"
    /\ Len(calls) = 2
    /\ calls[1].provider = "learnlm" /\ calls[1].raised
    /\ calls[2].provider = "openai" /\ calls[2].raised
    /\ sent = << BotFrame(Apology) >>
    /\ pc = "loop"

\* C9: when the set-up wait times out, the loop is entered in practice mode:
\* the first history entry is the system prompt of the level table for the
\* level of the URL, the level is the one of the URL, and every completion
\* call of the loop is made without assignment data.
C9_TimeoutIsPracticeMode ==
    setup_event.kind = "timeout" /\ pc = "loop"
    => /\ conversation_history[1] =
             Entry("system", LevelSystemPrompt(ConfigKey(url_level)))
       /\ level = url_level
       /\ assignment_data = None
       /\ \A i \in 1..Len(calls) :
             calls[i].assignment_data = None /\ calls[i].level = url_level

\* after a timeout, a turn has made a completion call for a level of the table
C9_Witness ==
    /\ setup_event.kind = "timeout"
    /\ pc = "loop"
    /\ url_level = "beginner"
    /\ received = "text"
    /\ Len(calls) >= 1
    /\ calls[1].assignment_data = None

(***************************************************************************)
(* Properties of the session store                                         *)
(***************************************************************************)
\* C3: right after submit_session_for_grading(S) has returned true for an
\* existing session S, exactly one session of S's (assignment, student) pair
\* has submitted_for_grading = TRUE, and it is S, whatever creations and
\* submissions came before.
C3_SubmitLeavesOnlyThis ==
    db_result.op = "submit" /\ db_result.ok
    => \E i \in RowsWithId(sessions, db_result.session_id) :
          SubmittedRows(sessions, sessions[i].assignment_id, sessions[i].student_id)
             = { i }

\* the first of two sessions of one pair has just been submitted
C3_Witness ==
    /\ db_result = [ op |-> "submit", session_id |-> 1, ok |-> TRUE ]
    /\ Len(sessions) = 2
    /\ sessions[2].assignment_id = sessions[1].assignment_id
    /\ sessions[2].student_id = sessions[1].student_id
    /\ sessions[1].submitted_for_grading

\* C4: in every reachable state of the store, under any interleaving of the
\* statements of concurrent session creations, session updates, submissions
\* and assignment soft-deletes, at most one session per (assignment, student)
\* pair has submitted_for_grading = TRUE.
C4_AtMostOneSubmitted ==
    \A a \in AssignmentIds, s \in StudentIds :
        Cardinality(SubmittedRows(sessions, a, s)) <= 1

\* two workers are both between the SELECT and the UPDATEs of a submission,
\* for different sessions of one pair, one of which is submitted already
C4_Witness ==
    /\ txn["w1"].step = "submit_selected"
    /\ txn["w2"].step = "submit_selected"
    /\ txn["w1"].session_id # txn["w2"].session_id
    /\ txn["w1"].assignment_id = txn["w2"].assignment_id
    /\ txn["w1"].student_id = txn["w2"].student_id
    /\ SubmittedRows(sessions, txn["w1"].assignment_id, txn["w1"].student_id) # { }

\* C5 as stated: at any time every (assignment, student) pair that has a
\* session has exactly one session with submitted_for_grading = TRUE.
C5_ExactlyOneSubmitted ==
    \A a \in AssignmentIds, s \in StudentIds :
        PairRows(sessions, a, s) # { }
        => Cardinality(SubmittedRows(sessions, a, s)) = 1

\* C5: a pair never has more than one submitted session; a session becomes
\* submitted only by a submission of it that returns true, so a pair has none
\* until then; and a pair that has a submitted session still has one after
\* every step that leaves it any session.
C5_OneSubmittedOnceSubmitted ==
    [][ /\ \A i \in 1..Len(sessions') :
              sessions'[i].submitted_for_grading
              => /\ SubmittedRows(sessions', sessions'[i].assignment_id,
                                  sessions'[i].student_id) = { i }
                 /\ \/ \E k \in RowsWithId(sessions, sessions'[i].id) :
                          sessions[k].submitted_for_grading
                    \/ db_result' = [ op |-> "submit", session_id |-> sessions'[i].id,
                                      ok |-> TRUE ]
        /\ \A k \in 1..Len(sessions) :
              sessions[k].submitted_for_grading
              => \/ PairRows(sessions', sessions[k].assignment_id,
                             sessions[k].student_id) = { }
                 \/ SubmittedRows(sessions', sessions[k].assignment_id,
                                  sessions[k].student_id) # { } ]_vars

\* a session was created for a pair after another of its sessions had been
\* submitted, and the submitted one is still the only one
C5_Witness ==
    /\ Len(sessions) = 2
    /\ sessions[2].assignment_id = sessions[1].assignment_id
    /\ sessions[2].student_id = sessions[1].student_id
    /\ sessions[1].submitted_for_grading
    /\ ~ sessions[2].submitted_for_grading
    /\ db_result.op = "other"

C7_AttemptIsActiveCountPlusOne ==
    [][ Len(sessions') = Len(sessions) + 1
        => LET new == sessions'[Len(sessions')]
           IN  new.attempt_number =
                  1 + Cardinality({ i \in 1..Len(sessions) :
                                      /\ sessions[i].assignment_id = new.assignment_id
                                      /\ sessions[i].student_id = new.student_id
                                      /\ sessions[i].is_active }) ]_vars

\* a second session of a pair was created while the first was active
C7_Witness ==
    /\ Len(sessions) = 2
    /\ sessions[2].assignment_id = sessions[1].assignment_id
    /\ sessions[2].student_id = sessions[1].student_id
    /\ sessions[1].is_active
    /\ sessions[1].attempt_number = 1
    /\ sessions[2].attempt_number = 2

C11_VoiceFailureIsOneErrorEvent ==
    received = "voice" /\ failed # { }
    => /\ Len(sent) = 1
       /\ sent[1].type = "error"
       /\ pc = "loop"

\* a voice turn got its completion and then the speech synthesis raised
C11_Witness ==
    /\ received = "voice"
    /\ failed = { "speech" }
    /\ completion = Bien
    /\ Len(sent) = 1
    /\ sent[1].type = "error"
    /\ pc = "loop"

\* C12 as stated: a malformed client message in the loop (not JSON, JSON
\* that is not an object, an object of another type) is skipped: nothing is
\* sent, the history is unchanged, no provider is called and the loop goes on.
C12_MalformedIsSkipped ==
    [][ turns' = turns + 1 /\ received' \in MalformedKinds
        => /\ sent' = << >>
           /\ conversation_history' = conversation_history
           /\ calls' = << >>
           /\ pc' = "loop" ]_vars

\* C13 as stated: when the first frame of the set-up wait is not a
\* well-formed assignment set-up, the loop is entered as without assignment:
\* the level is the level of the URL, the system prompt is the one of the
\* level table, and no completion call gets assignment data.
C13_MalformedSetupIsPracticeMode ==
    ( /\ pc = "loop"
      /\ setup_event.kind = "message"
      /\ \/ setup_event.msg.json # "object"
         \/ setup_event.msg.type # "assignment_setup"
         \/ "assignment" \notin DOMAIN setup_event.msg
         \/ ~ IsDict(setup_event.msg.assignment)
         \/ PartsPromptRaises(setup_event.msg.assignment) )
    => /\ level = url_level
       /\ conversation_history[1] =
             Entry("system", LevelSystemPrompt(ConfigKey(url_level)))
       /\ assignment_data = None
       /\ \A i \in 1..Len(calls) : calls[i].assignment_data = None

(***************************************************************************)
(* Soft delete and conversation logs                                       *)
(***************************************************************************)
\* C14: the soft delete of assignment A sets A's active flag false and makes
\* every session of A inactive; it removes no row and leaves every other
\* assignment, every session of another assignment and every conversation
\* log as it was.
C14_SoftDeleteTouchesOnlyA ==
    [][ \A a \in AssignmentIds :
          db_result' = [ op |-> "delete", assignment_id |-> a ] /\ assignments[a].row
          => /\ assignments'[a] = [ row |-> TRUE, is_active |-> FALSE ]
             /\ \A b \in AssignmentIds \ { a } : assignments'[b] = assignments[b]
             /\ Len(sessions') = Len(sessions)
             /\ \A i \in 1..Len(sessions) :
                   sessions'[i] = IF sessions[i].assignment_id = a
                                  THEN [ sessions[i] EXCEPT !.is_active = FALSE ]
                                  ELSE sessions[i]
             /\ logs' = logs ]_vars

\* an assignment with a logged session was deleted while the session of
\* another assignment stayed active
C14_Witness ==
    /\ db_result = [ op |-> "delete", assignment_id |-> "a1" ]
    /\ assignments["a1"] = [ row |-> TRUE, is_active |-> FALSE ]
    /\ Len(logs) > 0
    /\ \E i, j \in 1..Len(sessions) :
          /\ sessions[i].assignment_id = "a1" /\ ~ sessions[i].is_active
          /\ sessions[j].assignment_id = "a2" /\ sessions[j].is_active

C16_ConnectionsAreSequentialAndIsolated ==
    [][ \A k \in ConnIds :
          LET old == conns[k]
              new == conns'[k]
          IN  /\ new.read = [ i \in 1..Len(new.read) |-> i ]
              /\ new.replied = [ i \in 1..Len(new.replied) |-> i ]
              /\ Len(new.read) - Len(new.replied) \in { 0, 1 }
              /\ ( new.level # old.level \/ new.assignment_data # old.assignment_data )
                 => old.at = "accept" /\ new.at = "receive"
              /\ new.conversation_history # old.conversation_history
                 => \/ old.at = "accept" /\ new.at = "receive"
                    \/ /\ old.at = "receive" /\ new.at = "respond"
                       /\ old.inbox # << >>
                       /\ new.conversation_history
                            = Append(old.conversation_history,
                                     Entry("user", Head(old.inbox).content))
                    \/ /\ old.at = "respond" /\ new.at = "send"
                       /\ new.conversation_history
                            = Truncate(Append(old.conversation_history,
                                              Entry("assistant", new.bot_response))) ]_vars

\* one connection has answered two frames while the other, opened with
\* another level and an assignment, waits for a completion with a frame queued
C16_Witness ==
    /\ conns["k1"].replied = << 1, 2 >>
    /\ conns["k2"].at = "respond" /\ conns["k2"].inbox # << >>
    /\ conns["k1"].level # conns["k2"].level
    /\ conns["k1"].assignment_data = None /\ conns["k2"].assignment_data # None
    /\ conns["k1"].conversation_history # conns["k2"].conversation_history

(***************************************************************************)
(* REST endpoints of classrooms and enrollments                            *)
(***************************************************************************)
\* C17: on the endpoints that raise a 404 for a missing resource (here:
\* delete classroom, enroll with an invalid join code, leave classroom,
\* remove enrollment), a request that names a resource that does not exist
\* is answered with status 404.
C17_MissingResourceIs404 ==
    http.missing => http.status = 404

\* C18: after a successful enrollment of student s in classroom c through a
\* valid join code, s is listed by get_classroom_students(c) and c by
\* get_student_classrooms(s), whatever the history of the pair; and no pair
\* ever has more than one enrollment row.
C18_EnrolledIsListed ==
    /\ \A s \in StudentIds, c \in ClassroomIds :
          Cardinality(PairEnrollments(enrollments, s, c)) <= 1
    /\ http.endpoint = "enroll" /\ http.status = 200
       => /\ http.student_id \in GetClassroomStudents(enrollments, students, http.classroom_id)
          /\ http.classroom_id \in GetStudentClassrooms(enrollments, classrooms, http.student_id)

(***************************************************************************)
(* What a truncation removes                                               *)
(***************************************************************************)
\* C19 as stated: every truncation of the conversation history removes
\* entries only from the oldest end of the turn messages and only in whole
\* (user, assistant) pairs, keeps the system entry at index 0 and keeps the
\* order of what remains; the first truncation of a connection included.
C19_TruncationRemovesWholePairs ==
    [][ LET old     == conversation_history
            new     == conversation_history'
            h2      == old \o SubSeq(new, Len(new) - 1, Len(new))
            dropped == Len(old) + 2 - Len(new)
        IN  ( /\ pc = "loop" /\ pc' = "loop" /\ turns' = turns + 1
              /\ new # old /\ dropped > 0 )
            => /\ new = << old[1] >> \o SubSeq(h2, 2 + dropped, Len(h2))
               /\ dropped % 2 = 0
               /\ \A i \in 1..dropped :
                     h2[1 + i].role = IF i % 2 = 1 THEN "user" ELSE "assistant" ]_vars

\* C19 (amended): every truncation removes entries only from the oldest end
\* of the turn messages, keeps the system entry at index 0 and keeps the
\* order of what remains.  The first truncation of a connection, the one
\* that finds the opening icebreaker after the system entry, removes that
\* one entry; every later one removes one whole (user, assistant) pair.
C19_TruncationRemovesOldest ==
    [][ LET old     == conversation_history
            new     == conversation_history'
            h2      == old \o SubSeq(new, Len(new) - 1, Len(new))
            dropped == Len(old) + 2 - Len(new)
        IN  ( /\ pc = "loop" /\ pc' = "loop" /\ turns' = turns + 1
              /\ new # old /\ dropped > 0 )
            => /\ new = << old[1] >> \o SubSeq(h2, 2 + dropped, Len(h2))
               /\ new[1].role = "system"
               /\ \/ /\ dropped = 1
                     /\ old[2].role = "assistant"
                  \/ /\ dropped = 2
                     /\ old[2].role = "user" /\ old[3].role = "assistant" ]_vars

\* the history after eleven answered turns, that is after the second
\* truncation: the window is full and the entry after the system entry is a
\* user entry
C19_Witness ==
    /\ pc = "loop" /\ turns = HistoryWindow \div 2 + 1 /\ incidents = 0
    /\ Len(conversation_history) = HistoryWindow
    /\ conversation_history[1].role = "system"
    /\ conversation_history[2].role = "user"

(***************************************************************************)
(* Schema initialisation                                                   *)
(***************************************************************************)
\* C20: init_database completes without raising from every starting schema,
\* a database without tables included; afterwards all seven tables exist
\* with every column the operations use, and running it again changes
\* nothing.
C20_InitDatabaseCompletes ==
    init_result # "none"
    => /\ init_result = "completed"
       /\ \A t \in Tables : schema[t].exists /\ Required(t) \subseteq schema[t].columns
       /\ Run(Statements, schema) = [ schema |-> schema, raised |-> FALSE ]

(***************************************************************************)
(* Join codes                                                              *)
(***************************************************************************)
\* C21: the join code returned by _generate_join_code differs from the join
\* code of every classroom in the store, active or soft-deleted, so
\* create_classroom never fails on the uniqueness of join codes.
C21_JoinCodeIsFresh ==
    /\ \A code \in GenerateJoinCode(classrooms) :
          \A c \in ClassroomIds : classrooms[c].row => classrooms[c].join_code # code
    /\ http.endpoint = "create_classroom" => http.status = 200

(***************************************************************************)
(* The content filter over all bot texts                                   *)
(***************************************************************************)
\* C22: every bot text of a connection that is sent to the client or stored
\* as an assistant entry of the history, the contextual icebreaker included,
\* contains none of the prohibited words (case-insensitive substring) or is
\* the redirect sentence.
C22_EveryBotTextIsFiltered ==
    LET clean(text) == \/ text = Redirect
                       \/ \A word \in ProhibitedWords : ~ Contains(Lower(text), word)
    IN  /\ \A i \in 1..Len(conversation_history) :
              conversation_history[i].role = "assistant"
              => clean(conversation_history[i].content)
        /\ \A i \in 1..Len(sent) :
              sent[i].type \in { "bot", "voice_response" } => clean(sent[i].text)

(***************************************************************************)
(* Every text message is answered                                          *)
(***************************************************************************)
\* C23: every well-formed text message a client sends at any time after its
\* connection was accepted is eventually answered by exactly one bot reply,
\* provided the client stays connected and provider calls return: in the
\* end the replies of a connection are as many as the text messages it sent.
C23_EveryTextIsAnswered ==
    \A k \in ConnIds :
        <>[]( Len(conns[k].replied)
                = conns[k].arrived + (IF conns[k].first = "text" THEN 1 ELSE 0) )

(***************************************************************************)
(* The history and what the client saw                                     *)
(***************************************************************************)
\* C24: every assistant entry of the conversation history was sent to the
\* client, as a bot text or as the text of a voice response, and every user
\* entry is followed by its assistant entry; also after a voice turn that
\* ended in an error event.  Step by step: a step that changes the history
\* and stays in the loop leaves an assistant entry last and has sent its text.
C24_HistoryIsWhatTheClientSaw ==
    [][ ( conversation_history' # conversation_history /\ pc' = "loop" )
        => LET new  == conversation_history'
               last == new[Len(new)]
           IN  /\ last.role = "assistant"
               /\ \E i \in 1..Len(sent') :
                     /\ sent'[i].type \in { "bot", "voice_response" }
                     /\ sent'[i].text = last.content
               /\ \A i \in 1..Len(new) :
                     new[i].role = "user"
                     => i < Len(new) /\ new[i + 1].role = "assistant" ]_vars

(***************************************************************************)
(* Attempt numbers of the active sessions                                  *)
(***************************************************************************)
\* C25: in every reachable state of the store, the attempt numbers of the
\* active sessions of an (assignment, student) pair are pairwise distinct
\* and are exactly 1..n, n being the number of active sessions of the pair.
C25_ActiveAttemptsAreOneToN ==
    \A a \in AssignmentIds, s \in StudentIds :
        LET active == { i \in PairRows(sessions, a, s) : sessions[i].is_active }
        IN  /\ \A i, j \in active :
                  i # j => sessions[i].attempt_number # sessions[j].attempt_number
            /\ { sessions[i].attempt_number : i \in active } = 1..Cardinality(active)

\* a pair with two active sessions, created after its assignment replaced a
\* soft-deleted one
C25_Witness ==
    /\ \E a \in AssignmentIds : assignments[a].row /\ ~ assignments[a].is_active
    /\ \E a \in AssignmentIds, s \in StudentIds :
          /\ assignments[a].is_active
          /\ Cardinality({ i \in PairRows(sessions, a, s) : sessions[i].is_active }) = 2

\* C26: when two create_assignment_session calls for one (assignment,
\* student) pair run at the same time on separate connections, the count
\* query and the insert of each being separate steps, the two new sessions
\* get different attempt numbers: two active sessions of a pair never have
\* the same attempt number.
C26_ConcurrentAttemptsDiffer ==
    \A i, j \in 1..Len(sessions) :
        ( /\ i # j
          /\ sessions[i].assignment_id = sessions[j].assignment_id
          /\ sessions[i].student_id = sessions[j].student_id
          /\ sessions[i].is_active /\ sessions[j].is_active )
        => sessions[i].attempt_number # sessions[j].attempt_number

(***************************************************************************)
(* Requests answered with an error                                         *)
(***************************************************************************)
\* C27: whenever a mutating REST request (here: delete classroom, enroll,
\* create classroom, leave classroom, remove enrollment) is answered with an
\* error status, the store is as it was before the request: the request
\* inserted and changed no row.
C27_ErrorLeavesStoreUnchanged ==
    [][ http'.status >= 400
        => << classrooms, students, enrollments >>' = << classrooms, students, enrollments >> ]_vars

\* C28: no response of an endpoint that returns a teacher or a student record
\* (login, signup, get and update teacher, list classroom students) contains
\* the key password_hash
C28_NoPasswordHashInResponse ==
    \A record \in http.records : "password_hash" \notin DOMAIN record

\* C29: a provider call that never returns blocks only the connection that
\* issued it: whatever the provider of the other connection does, every frame
\* queued for this connection's loop is eventually answered
C29_HungCallBlocksOnlyItsConnection ==
    \A n \in 1..MaxFrames :
        (\E i \in 1..Len(conns[OtherConn].inbox) : conns[OtherConn].inbox[i].n = n)
            ~> (\E i \in 1..Len(conns[OtherConn].replied) : conns[OtherConn].replied[i] = n)

\* C30: for every classroom and every store content, get_classroom_analytics
\* reports completed_sessions <= total_sessions and a completion_rate between
\* 0 and 100
C30_CompletionRateIsAPercentage ==
    db_result.op = "analytics" =>
        LET result == db_result.analytics
        IN  /\ result.completed_sessions <= result.total_sessions
            /\ 0 <= result.completion_rate.num
            /\ result.completion_rate.num <= 100 * result.completion_rate.den

====
